---- MODULE Spec2Model ----
(***************************************************************************)
(* Dropshipper payout application: the payout aggregation engine           *)
(* (DatabaseStorage.calculatePayouts) and the RTS/RTO detector and         *)
(* reconciler (autoDetectRtsRtoReconciliations,                            *)
(* processRtsRtoReconciliation), over the tables of shared/schema.ts.      *)
(*                                                                         *)
(* Text values are sequences of one-character strings, so that             *)
(* toLowerCase(), includes(), trim(), template-string keys and split('|')  *)
(* are computed, not assumed.  Money is kept in hundredths of a currency   *)
(* unit (the DECIMAL(10,2) columns), timestamps in seconds.                *)
(***************************************************************************)
EXTENDS Integers, Sequences, FiniteSets, TLC

VARIABLES
    orderData,          \* table order_data, in ingestion (insert) order
    productPrices,      \* table product_prices
    shippingRates,      \* table shipping_rates
    payoutLog,          \* table payout_log, in insert order
    rtsRtoReconciliation, \* table rts_rto_reconciliation, in insert order
    paymentCycles,      \* table payment_cycles, in insert order
    uploadSessions,     \* table upload_sessions, in insert order
    userSessions,       \* table user_sessions of the session store, in insert order
    lastCall,           \* the most recently completed call: operation, arguments, return value
    calls               \* per client, the call it has in flight: position and local values

vars == <<orderData, productPrices, shippingRates, payoutLog,
          rtsRtoReconciliation, paymentCycles, uploadSessions, userSessions,
          lastCall, calls>>

\* The callers whose calls may overlap
Clients == {1, 2}
\* No call in flight
Idle == [pc |-> "idle"]

-----------------------------------------------------------------------------
(* Bounds of the model *)

\* The number of rows of order_data in the reconciliation specification
MaxOrders == 3

-----------------------------------------------------------------------------
(* Text *)

\* SQL NULL / JS null of a text column
NullText == <<"<null>">>
\* SQL NULL of a timestamp column (timestamps are >= 0)
NullDate == -1

UpperToLower ==
    [c \in {"A","B","C","D","E","F","G","H","I","J","K","L","M",
            "N","O","P","Q","R","S","T","U","V","W","X","Y","Z"} |->
        CASE c = "A" -> "a" [] c = "B" -> "b" [] c = "C" -> "c" [] c = "D" -> "d"
          [] c = "E" -> "e" [] c = "F" -> "f" [] c = "G" -> "g" [] c = "H" -> "h"
          [] c = "I" -> "i" [] c = "J" -> "j" [] c = "K" -> "k" [] c = "L" -> "l"
          [] c = "M" -> "m" [] c = "N" -> "n" [] c = "O" -> "o" [] c = "P" -> "p"
          [] c = "Q" -> "q" [] c = "R" -> "r" [] c = "S" -> "s" [] c = "T" -> "t"
          [] c = "U" -> "u" [] c = "V" -> "v" [] c = "W" -> "w" [] c = "X" -> "x"
          [] c = "Y" -> "y" [] c = "Z" -> "z"]

\* String.prototype.toLowerCase
ToLowerCase(s) ==
    [i \in 1..Len(s) |-> IF s[i] \in DOMAIN UpperToLower THEN UpperToLower[s[i]] ELSE s[i]]

\* String.prototype.includes
Includes(s, sub) ==
    \E i \in 1..(Len(s) - Len(sub) + 1) : SubSeq(s, i, i + Len(sub) - 1) = sub

\* String.prototype.trim (blanks at both ends)
RECURSIVE TrimStart(_)
TrimStart(s) == IF s # <<>> /\ Head(s) = " " THEN TrimStart(Tail(s)) ELSE s
RECURSIVE TrimEnd(_)
TrimEnd(s) == IF s # <<>> /\ s[Len(s)] = " " THEN TrimEnd(SubSeq(s, 1, Len(s) - 1)) ELSE s
Trim(s) == TrimEnd(TrimStart(s))

\* String.prototype.split('|'): the fields between the separators
RECURSIVE SplitFrom(_, _, _)
SplitFrom(s, i, cur) ==
    IF i > Len(s) THEN <<cur>>
    ELSE IF s[i] = "|" THEN <<cur>> \o SplitFrom(s, i + 1, <<>>)
    ELSE SplitFrom(s, i + 1, Append(cur, s[i]))
SplitBar(s) == SplitFrom(s, 1, <<>>)

\* `${a}|${b}`
Key2(a, b) == a \o <<"|">> \o b
\* `${a}|${b}|${c}`
Key3(a, b, c) == a \o <<"|">> \o b \o <<"|">> \o c

\* Status texts
StDelivered == <<"D","e","l","i","v","e","r","e","d">>
StInTransit == <<"I","n"," ","T","r","a","n","s","i","t">>
StRTO == <<"R","T","O">>
StRTS == <<"R","T","S">>
StRTODispatched == <<"R","T","O","-","D","i","s","p","a","t","c","h","e","d">>
StRTOIT == <<"R","T","O","-","I","T">>
StRtoLower == <<"r","t","o">>
StCancelled == <<"C","a","n","c","e","l","l","e","d">>
StCancelledLower == <<"c","a","n","c","e","l","l","e","d">>

\* Payment-mode texts
ModeCOD == <<"C","O","D">>
ModeCodPadded == <<" ","c","o","d"," ">>
ModePrepaid == <<"P","r","e","p","a","i","d">>

\* Carriers
Bluedart == <<"B","l","u","e","d","a","r","t">>
CarrierX == <<"X">>

\* Dropshipper e-mails and product identities (generateProductUid: e-mail followed by the
\* trimmed product name)
EmailA == <<"a","@","x">>
EmailAUpper == <<"A","@","x">>
EmailB == <<"b","@","x">>
SystemEmail1 == <<"a","k","a","s","h","@","s","h","o","p","p","e","r","s","k","a","r","t",".","s","h","o","p">>
SystemEmail2 == <<"b","u","z","w","i","d","e","t","e","c","h","n","o","l","o","g","y","p","v","t","l","t","d","@","g","m","a","i","l",".","c","o","m">>
generateProductUid(productName, dropshipperEmail) == dropshipperEmail \o Trim(productName)

-----------------------------------------------------------------------------
(* Time: a calendar-day string 'YYYY-MM-DD' is its day number *)

SecondsPerDay == 24 * 60 * 60
\* new Date('YYYY-MM-DD'): midnight at the start of the day
DateOf(day) == day * SecondsPerDay
\* new Date('YYYY-MM-DD' + ' 23:59:59')
EndOfDay(day) == day * SecondsPerDay + 23 * 3600 + 59 * 60 + 59

-----------------------------------------------------------------------------
(* Arithmetic on hundredths *)

Max(a, b) == IF a >= b THEN a ELSE b
\* Math.round of an amount in hundredths, as a whole number of units
\* (halves go up, like Math.round)
RoundUnits(cents) == (cents + 50) \div 100

-----------------------------------------------------------------------------
(* Rows *)

\* randomUUID(): the n-th identifier handed out for a table; a UUID text, never a number
Uuid(table, n) == <<table, n>>

\* A row of order_data as the upload route hands it to insertOrderData (no id yet)
OrderInput(orderId, email, productName, qty, productValue, mode, status, orderDate, deliveredDate, rtsDate, shippingProvider) ==
    [ dropshipperEmail |-> email,
      orderId          |-> orderId,
      orderDate        |-> orderDate,
      productUid       |-> generateProductUid(productName, email),
      qty              |-> qty,
      productValue     |-> productValue,
      mode             |-> mode,
      status           |-> status,
      deliveredDate    |-> deliveredDate,
      rtsDate          |-> rtsDate,
      shippingProvider |-> shippingProvider ]

WithId(row, id) == [f \in DOMAIN row \cup {"id"} |-> IF f = "id" THEN id ELSE row[f]]

\* The rows of `table` in the order in which a SELECT without ORDER BY returns them:
\* the positions of the table taken in the order perm
InStoreOrder(table, perm) == [i \in 1..Len(table) |-> table[perm[i]]]

SeqToSet(s) == {s[i] : i \in 1..Len(s)}

-----------------------------------------------------------------------------
(* insertOrderData, insertPayoutLog, processRtsRtoReconciliation *)

\* insertOrderData(orders): every row gets a fresh UUID and is appended by the batch INSERT
RECURSIVE AppendWithIds(_, _)
AppendWithIds(table, orders) ==
    IF orders = <<>> THEN table
    ELSE AppendWithIds(Append(table, WithId(Head(orders), Uuid("order", Len(table) + 1))),
                       Tail(orders))

insertOrderData(orders) ==
    /\ orderData' = (IF Len(orders) = 0 THEN orderData ELSE AppendWithIds(orderData, orders))
    /\ lastCall' = [op |-> "insertOrderData"]
    /\ UNCHANGED <<userSessions, calls, paymentCycles, productPrices, shippingRates, payoutLog, rtsRtoReconciliation, uploadSessions>>

insertPayoutLog(log) ==
    LET id == Uuid("payout", Len(payoutLog) + 1)
    IN  /\ payoutLog' = Append(payoutLog, WithId(log, id))
        /\ lastCall' = [op |-> "insertPayoutLog", result |-> WithId(log, id)]
        /\ UNCHANGED <<userSessions, calls, paymentCycles, orderData, productPrices, shippingRates, rtsRtoReconciliation, uploadSessions>>

\* The foreign key of rts_rto_reconciliation.original_payout_id on payout_log.id
PayoutReferenceHolds(data) ==
    \/ data.originalPayoutId = NullText
    \/ \E i \in 1..Len(payoutLog) : payoutLog[i].id = data.originalPayoutId

\* A confirmation that replaces the record of the same order and product when there is one
processAsUpsert(data) ==
    LET same == { i \in 1..Len(rtsRtoReconciliation) :
                      /\ rtsRtoReconciliation[i].orderId = data.orderId
                      /\ rtsRtoReconciliation[i].productUid = data.productUid }
        id == Uuid("reconciliation", Len(rtsRtoReconciliation) + 1)
    IN  /\ IF ~PayoutReferenceHolds(data)
           THEN /\ rtsRtoReconciliation' = rtsRtoReconciliation
                /\ lastCall' = [op |-> "processRtsRtoReconciliation", thrown |-> TRUE]
           ELSE IF same # {}
           THEN LET at == CHOOSE i \in same : TRUE
                    row == WithId(data, rtsRtoReconciliation[at].id)
                IN  /\ rtsRtoReconciliation' = [rtsRtoReconciliation EXCEPT ![at] = row]
                    /\ lastCall' = [op |-> "processRtsRtoReconciliation", result |-> row]
           ELSE /\ rtsRtoReconciliation' = Append(rtsRtoReconciliation, WithId(data, id))
                /\ lastCall' = [op |-> "processRtsRtoReconciliation",
                                result |-> WithId(data, id)]
        /\ UNCHANGED <<userSessions, calls, paymentCycles, orderData, productPrices, shippingRates, payoutLog, uploadSessions>>

\* processRtsRtoReconciliation(data): one INSERT with a fresh id, then the row is read back;
\* an INSERT the store rejects throws and leaves the table as it was
processRtsRtoReconciliation(data) ==
    LET id == Uuid("reconciliation", Len(rtsRtoReconciliation) + 1)
    IN  /\ IF PayoutReferenceHolds(data)
           THEN /\ rtsRtoReconciliation' = Append(rtsRtoReconciliation, WithId(data, id))
                /\ lastCall' = [op |-> "processRtsRtoReconciliation",
                                result |-> WithId(data, id)]
           ELSE /\ rtsRtoReconciliation' = rtsRtoReconciliation
                /\ lastCall' = [op |-> "processRtsRtoReconciliation", thrown |-> TRUE]
        /\ UNCHANGED <<userSessions, calls, paymentCycles, orderData, productPrices, shippingRates, payoutLog, uploadSessions>>

-----------------------------------------------------------------------------
(* The status and payment-mode tests of calculatePayouts *)

\* order.status.toLowerCase().includes('delivered')
isDelivered(order) ==
    Includes(ToLowerCase(order.status), <<"d","e","l","i","v","e","r","e","d">>)

\* includes('rts') || includes('rto') || order.rtsDate
isRtsRto(order) ==
    \/ Includes(ToLowerCase(order.status), <<"r","t","s">>)
    \/ Includes(ToLowerCase(order.status), <<"r","t","o">>)
    \/ order.rtsDate # NullDate

\* A cancellation test that leaves out toLowerCase()
isCancelledCaseSensitive(order) ==
    \/ order.status = <<"c","a","n","c","e","l","l","e","d">>
    \/ Includes(order.status, <<"c","a","n","c","e","l">>)

\* status.toLowerCase() === 'cancelled' || status.toLowerCase().includes('cancel')
isCancelled(order) ==
    \/ ToLowerCase(order.status) = <<"c","a","n","c","e","l","l","e","d">>
    \/ Includes(ToLowerCase(order.status), <<"c","a","n","c","e","l">>)

\* String(order.mode || '').toLowerCase().trim() is 'cod' or ''
isCodOrder(order) ==
    LET paymentMode == Trim(ToLowerCase(IF order.mode = NullText THEN <<>> ELSE order.mode))
    IN  paymentMode = <<"c","o","d">> \/ paymentMode = <<>>

-----------------------------------------------------------------------------
(* autoDetectRtsRtoReconciliations *)

\* The literal list ['RTS', 'RTO', 'RTO-Dispatched', 'RTO-IT'] of the candidate filter and
\* of the transition test
ListedReturnStatuses == {StRTS, StRTO, StRTODispatched, StRTOIT}

EstimatedShippingCost == 2500
EstimatedProductCostPercent == 30

\* currentOrder.codAmount: a row of order_data has no such property (the column is
\* productValue), so the read yields undefined and parseFloat(undefined) || 0 is 0
CodAmountOf(currentOrder) ==
    IF "codAmount" \in DOMAIN currentOrder THEN currentOrder.codAmount ELSE 0

\* Math.round(Math.max(0, codAmount - 25 - codAmount * 0.3) * 100) / 100, in hundredths
EstimatedReversal(codAmount) ==
    LET thousandths == Max(0, 10 * (codAmount - EstimatedShippingCost)
                               - (codAmount * EstimatedProductCostPercent) \div 10)
    IN  (thousandths + 5) \div 10

\* a.id - b.id of two UUID texts is NaN, which Array.prototype.sort takes as +0
IdDifference(a, b) == 0

\* orderHistory.sort((a, b) => a.id - b.id): a stable sort
RECURSIVE InsertById(_, _)
InsertById(sorted, x) ==
    IF sorted = <<>> THEN <<x>>
    ELSE IF IdDifference(sorted[Len(sorted)], x) <= 0 THEN Append(sorted, x)
    ELSE Append(InsertById(SubSeq(sorted, 1, Len(sorted) - 1), x), sorted[Len(sorted)])
RECURSIVE SortById(_)
SortById(h) ==
    IF h = <<>> THEN <<>>
    ELSE InsertById(SortById(SubSeq(h, 1, Len(h) - 1)), h[Len(h)])

\* The candidate filter: listed status and order date within [orderDateFrom, orderDateTo]
IsCurrentRtsRto(order, params) ==
    /\ order.status \in ListedReturnStatuses
    /\ order.orderDate >= DateOf(params.orderDateFrom)
    /\ order.orderDate <= DateOf(params.orderDateTo)

\* The test of the loop over adjacent pairs of the history
IsDeliveredToReturn(prevOrder, nextOrder) ==
    /\ \/ Includes(ToLowerCase(prevOrder.status), <<"d","e","l","i","v","e","r","e","d">>)
       \/ Includes(ToLowerCase(prevOrder.status), <<"d","e","l">>)
    /\ nextOrder.status \in ListedReturnStatuses

\* The positions i at which orderHistory[i] -> orderHistory[i+1] passes the test
ChangePositions(orderHistory) ==
    {i \in 1..(Len(orderHistory) - 1) :
        IsDeliveredToReturn(orderHistory[i], orderHistory[i + 1])}

Least(S) == CHOOSE x \in S : \A y \in S : x <= y

\* new Map(priorPayouts.map(p => [p.orderId, p])).get(orderId): of the rows of an order
\* the one the store returned last
PayoutsOf(priorPayouts, orderId) == SelectSeq(priorPayouts, LAMBDA p : p.orderId = orderId)

\* A ladder whose payout-only rung is rated like the transition rungs
ConfidencePayoutHigh(statusChangeDetected, hasPriorPayout) ==
    IF statusChangeDetected \/ hasPriorPayout THEN "high" ELSE "low"

\* The four-way ladder
Confidence(statusChangeDetected, hasPriorPayout) ==
    IF statusChangeDetected THEN "high"
    ELSE IF hasPriorPayout THEN "medium"
    ELSE "low"

\* One pass of the loop over currentRtsRtoOrders
SuggestionFor(currentOrder, allOrders, priorPayouts) ==
    LET orderHistory == SortById(SelectSeq(allOrders,
                                 LAMBDA o : o.orderId = currentOrder.orderId))
        changes == ChangePositions(orderHistory)
        statusChangeDetected == changes # {}
        previousDeliveredStatus ==
            IF statusChangeDetected THEN orderHistory[Least(changes)].status ELSE NullText
        mine == PayoutsOf(priorPayouts, currentOrder.orderId)
        hasPriorPayout == mine # <<>>
        codAmount == CodAmountOf(currentOrder)
        originalPaidAmount == IF hasPriorPayout THEN mine[Len(mine)].paidAmount ELSE 0
        suggestedReversalAmount ==
            IF hasPriorPayout THEN originalPaidAmount ELSE EstimatedReversal(codAmount)
    IN  [ orderId                 |-> currentOrder.orderId,
          dropshipperEmail        |-> currentOrder.dropshipperEmail,
          productUid              |-> currentOrder.productUid,
          suggestedReversalAmount |-> suggestedReversalAmount,
          originalPaidAmount      |-> originalPaidAmount,
          rtsRtoStatus            |-> currentOrder.status,
          confidence              |-> Confidence(statusChangeDetected, hasPriorPayout),
          previousStatus          |-> previousDeliveredStatus,
          statusChangeDetected    |-> statusChangeDetected ]

\* A detector that never skips a reconciled order
SkipReconciledNever(currentOrder, reconciledSet) == FALSE

\* if (reconciledSet.has(currentOrder.orderId)) continue
SkipReconciled(currentOrder, reconciledSet) == currentOrder.orderId \in reconciledSet

ConfidenceOrder(c) == CASE c = "high" -> 3 [] c = "medium" -> 2 [] c = "low" -> 1

\* A comparator without the tie-break on the amount
CompareByConfidenceOnly(a, b) ==
    ConfidenceOrder(b.confidence) - ConfidenceOrder(a.confidence)

\* The comparator of suggestions.sort
CompareSuggestions(a, b) ==
    IF ConfidenceOrder(a.confidence) # ConfidenceOrder(b.confidence)
    THEN ConfidenceOrder(b.confidence) - ConfidenceOrder(a.confidence)
    ELSE b.suggestedReversalAmount - a.suggestedReversalAmount

RECURSIVE InsertSuggestion(_, _)
InsertSuggestion(sorted, x) ==
    IF sorted = <<>> THEN <<x>>
    ELSE IF CompareSuggestions(sorted[Len(sorted)], x) <= 0 THEN Append(sorted, x)
    ELSE Append(InsertSuggestion(SubSeq(sorted, 1, Len(sorted) - 1), x), sorted[Len(sorted)])
RECURSIVE SortSuggestions(_)
SortSuggestions(s) ==
    IF s = <<>> THEN <<>>
    ELSE InsertSuggestion(SortSuggestions(SubSeq(s, 1, Len(s) - 1)), s[Len(s)])

\* The suggestions computed from the three query results
DetectSuggestions(allOrders, reconciliations, payouts, params) ==
    LET currentRtsRtoOrders == SelectSeq(allOrders, LAMBDA o : IsCurrentRtsRto(o, params))
        orderIds == {currentRtsRtoOrders[i].orderId : i \in 1..Len(currentRtsRtoOrders)}
        reconciledSet == {r.orderId : r \in {x \in SeqToSet(reconciliations) :
                                                x.orderId \in orderIds}}
        priorPayouts == SelectSeq(payouts, LAMBDA p : p.orderId \in orderIds)
        remaining == SelectSeq(currentRtsRtoOrders,
                               LAMBDA o : ~SkipReconciled(o, reconciledSet))
    IN  SortSuggestions([i \in 1..Len(remaining) |->
                            SuggestionFor(remaining[i], allOrders, priorPayouts)])

\* autoDetectRtsRtoReconciliations(params): reads order_data (filtered by dropshipper when
\* one is given), rts_rto_reconciliation and payout_log.  The SELECTs on order_data and
\* payout_log carry no ORDER BY: storeOrders is the set of orders in which the store may
\* return the rows of order_data
DetectWithStoreOrders(params, storeOrders) ==
    \E orderPerm \in storeOrders,
       payoutPerm \in Permutations(1..Len(payoutLog)) :
        LET stored == InStoreOrder(orderData, orderPerm)
            allOrders == IF params.dropshipperEmail # NullText /\ params.dropshipperEmail # <<>>
                         THEN SelectSeq(stored, LAMBDA o :
                                  o.dropshipperEmail = params.dropshipperEmail)
                         ELSE stored
            payouts == InStoreOrder(payoutLog, payoutPerm)
        IN  /\ lastCall' = [op |-> "autoDetectRtsRtoReconciliations",
                            params |-> params,
                            result |-> DetectSuggestions(allOrders, rtsRtoReconciliation,
                                                         payouts, params)]
            /\ UNCHANGED <<userSessions, calls, paymentCycles, orderData, productPrices, shippingRates, payoutLog,
                           rtsRtoReconciliation, uploadSessions>>

\* Any order: what SQL promises for a SELECT without ORDER BY
autoDetectRtsRtoReconciliations(params) ==
    DetectWithStoreOrders(params, Permutations(1..Len(orderData)))

\* Insert order: a store that happens to return the rows as they were ingested
autoDetectOnIngestionOrder(params) ==
    DetectWithStoreOrders(params, {[i \in 1..Len(orderData) |-> i]})

-----------------------------------------------------------------------------
(* The reconciliation specification: uploads of status snapshots, payout-log inserts,
   confirmations and detection runs *)

Noon(day) == DateOf(day) + 12 * 3600

\* A status snapshot of a line item as an upload stores it
Snapshot(orderId, email, status, productValue, rtsDate) ==
    OrderInput(orderId, email, <<"P">>, 1, productValue, ModeCOD, status,
               Noon(2), NullDate, rtsDate, Bluedart)

\* The snapshots the uploads of this specification carry: order A1 of dropshipper a with
\* the statuses of a delivery that turns into a return, order A2 of dropshipper b
SnapshotInputs ==
    { Snapshot("A1", EmailA, st, 100000, NullDate) :
          st \in {StDelivered, StInTransit, StRTO, StRtoLower} }
    \cup { Snapshot("A2", EmailB, StRTO, 2000, Noon(3)) }

\* The payout disbursed for order A1
PayoutLogInputs ==
    { [orderId |-> "A1", dropshipperEmail |-> EmailA,
       productUid |-> generateProductUid(<<"P">>, EmailA), paidAmount |-> 30000] }

\* The confirmations: order A1 without a payout reference, order A2 referring to the first
\* payout-log entry
ReconciliationInputs ==
    { [orderId |-> "A1", dropshipperEmail |-> EmailA,
       productUid |-> generateProductUid(<<"P">>, EmailA),
       originalPayoutId |-> NullText, originalPaidAmount |-> 30000,
       reversalAmount |-> 30000, rtsRtoStatus |-> StRTO, status |-> "pending"],
      [orderId |-> "A2", dropshipperEmail |-> EmailB,
       productUid |-> generateProductUid(<<"P">>, EmailB),
       originalPayoutId |-> Uuid("payout", 1), originalPaidAmount |-> 0,
       reversalAmount |-> 0, rtsRtoStatus |-> StRTO, status |-> "pending"] }

DetectParams ==
    { [orderDateFrom |-> 1, orderDateTo |-> 3, dropshipperEmail |-> NullText],
      [orderDateFrom |-> 1, orderDateTo |-> 3, dropshipperEmail |-> EmailA],
      [orderDateFrom |-> 3, orderDateTo |-> 4, dropshipperEmail |-> NullText] }

WithoutId(row) == [f \in DOMAIN row \ {"id"} |-> row[f]]
\* Each payout and each confirmation of the input sets is submitted once
NotYetSubmitted(input, table) == \A i \in 1..Len(table) : WithoutId(table[i]) # input

Init ==
    /\ orderData = <<>>
    /\ productPrices = <<>>
    /\ shippingRates = <<>>
    /\ payoutLog = <<>>
    /\ rtsRtoReconciliation = <<>>
    /\ paymentCycles = <<>>
    /\ uploadSessions = <<>>
    /\ userSessions = <<>>
    /\ lastCall = [op |-> "none"]
    /\ calls = [c \in Clients |-> Idle]

UploadSnapshot ==
    /\ Len(orderData) < MaxOrders
    /\ \E o \in SnapshotInputs : insertOrderData(<<o>>)

RecordPayout ==
    \E log \in PayoutLogInputs :
        /\ NotYetSubmitted(log, payoutLog)
        /\ insertPayoutLog(log)

ConfirmReconciliation ==
    \E data \in ReconciliationInputs :
        /\ NotYetSubmitted(data, rtsRtoReconciliation)
        /\ processRtsRtoReconciliation(data)

AutoDetect ==
    \E params \in DetectParams : autoDetectRtsRtoReconciliations(params)

Next ==
    \/ UploadSnapshot
    \/ RecordPayout
    \/ ConfirmReconciliation
    \/ AutoDetect

Spec == Init /\ [][Next]_vars

\* The same operations against a store that returns the rows of order_data in the order in
\* which they were ingested; the uploads carry the statuses of a delivery that is returned
\* after a further scan
UploadHistorySnapshot ==
    /\ Len(orderData) < MaxOrders
    /\ \E o \in {x \in SnapshotInputs : x.status # StRtoLower} : insertOrderData(<<o>>)

AutoDetectInOrder ==
    \E params \in DetectParams : autoDetectOnIngestionOrder(params)

NextInOrder ==
    \/ UploadHistorySnapshot
    \/ RecordPayout
    \/ ConfirmReconciliation
    \/ AutoDetectInOrder

SpecInOrder == Init /\ [][NextInOrder]_vars

-----------------------------------------------------------------------------
(* Properties of the detector *)

DetectReturned == lastCall.op = "autoDetectRtsRtoReconciliations"

ReconciledOrderIds == {rtsRtoReconciliation[i].orderId : i \in 1..Len(rtsRtoReconciliation)}

\* The rows of order_data a call with these parameters covers
Visible(o, params) ==
    params.dropshipperEmail = NullText \/ o.dropshipperEmail = params.dropshipperEmail

InOrderWindow(o, params) ==
    /\ o.orderDate >= DateOf(params.orderDateFrom)
    /\ o.orderDate <= DateOf(params.orderDateTo)

HasPayout(orderId) == \E i \in 1..Len(payoutLog) : payoutLog[i].orderId = orderId

SuggestionsFor(result, orderId) == SelectSeq(result, LAMBDA s : s.orderId = orderId)

\* C1: a reconciliation record is never removed by uploads, payout-log inserts or
\* confirmations, and a detection run that starts when the ledger holds a record for order O
\* returns no suggestion whose orderId is O, whatever its window and dropshipper filter.
C1_ReconciledNeverSuggested ==
    [][ /\ ReconciledOrderIds \subseteq ReconciledOrderIds'
        /\ lastCall'.op = "autoDetectRtsRtoReconciliations" =>
              \A i \in 1..Len(lastCall'.result) :
                  lastCall'.result[i].orderId \notin ReconciledOrderIds ]_vars

\* A run returned while order A1 is reconciled and has a listed RTS/RTO snapshot in the
\* window of the call; the unreconciled order A2 is suggested by the same run
C1_Witness ==
    /\ DetectReturned
    /\ "A1" \in ReconciledOrderIds
    /\ \E i \in 1..Len(orderData) :
          /\ orderData[i].orderId = "A1"
          /\ IsCurrentRtsRto(orderData[i], lastCall.params)
          /\ Visible(orderData[i], lastCall.params)
    /\ HasPayout("A1")
    /\ SuggestionsFor(lastCall.result, "A1") = <<>>
    /\ SuggestionsFor(lastCall.result, "A2") # <<>>

\* The stored row a suggestion was made for
MadeFor(s, o) ==
    /\ s.orderId = o.orderId
    /\ s.productUid = o.productUid
    /\ s.dropshipperEmail = o.dropshipperEmail
    /\ s.rtsRtoStatus = o.status

\* C2: when order O has a Delivered snapshot ingested before an RTO snapshot whose order date
\* is in the window, a payout-log entry exists for O and O is not reconciled, a detection run
\* returns exactly one suggestion for O, of confidence high and with the paid amount as the
\* reversal; ingestion order decides, not the order in which the store returns the rows.
C2_DeliveredThenRtoIsHigh ==
    DetectReturned =>
        \A O \in {"A1", "A2"} :
            ( /\ \E i, j \in 1..Len(orderData) :
                    /\ i < j
                    /\ orderData[i].orderId = O /\ orderData[j].orderId = O
                    /\ Visible(orderData[i], lastCall.params)
                    /\ Visible(orderData[j], lastCall.params)
                    /\ orderData[i].status = StDelivered
                    /\ orderData[j].status = StRTO
                    /\ InOrderWindow(orderData[j], lastCall.params)
              /\ HasPayout(O)
              /\ O \notin ReconciledOrderIds )
            => LET mine == SuggestionsFor(lastCall.result, O)
               IN  /\ Len(mine) = 1
                   /\ mine[1].confidence = "high"
                   /\ \E k \in 1..Len(payoutLog) :
                         /\ payoutLog[k].orderId = O
                         /\ mine[1].suggestedReversalAmount = payoutLog[k].paidAmount

\* C7: every suggestion's confidence and amount follow from (transition detected, prior
\* payout exists): (yes, yes) high with the paid amount, (yes, no) high with the estimate,
\* (no, yes) medium with the paid amount, (no, no) low with the estimate.
C7_ConfidenceLadder ==
    DetectReturned =>
        \A n \in 1..Len(lastCall.result) :
            LET s == lastCall.result[n]
                paid == {payoutLog[k].paidAmount :
                            k \in {x \in 1..Len(payoutLog) : payoutLog[x].orderId = s.orderId}}
                estimates == {EstimatedReversal(CodAmountOf(orderData[i])) :
                                 i \in {x \in 1..Len(orderData) : MadeFor(s, orderData[x])}}
            IN  /\ s.confidence =
                      (CASE s.statusChangeDetected /\ paid # {} -> "high"
                         [] s.statusChangeDetected /\ paid = {} -> "high"
                         [] ~s.statusChangeDetected /\ paid # {} -> "medium"
                         [] ~s.statusChangeDetected /\ paid = {} -> "low")
                /\ paid # {} => /\ s.suggestedReversalAmount \in paid
                                /\ s.originalPaidAmount = s.suggestedReversalAmount
                /\ paid = {} => /\ s.suggestedReversalAmount \in estimates
                                /\ s.originalPaidAmount = 0

\* One run that returns a medium suggestion (payout, no transition) for A1 next to a low one
\* (neither) for A2
C7_Witness ==
    /\ DetectReturned
    /\ \E n, m \in 1..Len(lastCall.result) :
          /\ lastCall.result[n].confidence = "medium"
          /\ lastCall.result[n].suggestedReversalAmount = 30000
          /\ ~lastCall.result[n].statusChangeDetected
          /\ lastCall.result[m].confidence = "low"
          /\ ~HasPayout(lastCall.result[m].orderId)

\* C8: without a prior payout the suggested reversal is max(0, v - 25 - 0.3 v) for the
\* monetary value v stored on the RTS/RTO line item (1000 gives 675).
C8_EstimateFromStoredValue ==
    DetectReturned =>
        \A n \in 1..Len(lastCall.result) :
            LET s == lastCall.result[n]
            IN  ~HasPayout(s.orderId) =>
                    \E i \in 1..Len(orderData) :
                        /\ MadeFor(s, orderData[i])
                        /\ s.suggestedReversalAmount =
                              EstimatedReversal(orderData[i].productValue)

\* C9: a suggestion reports a detected transition whenever, in the history of its order, a
\* snapshot classified Delivered comes before a snapshot classified RTS/RTO, adjacent or not.
C9_TransitionNeedsNoAdjacency ==
    DetectReturned =>
        \A n \in 1..Len(lastCall.result) :
            LET s == lastCall.result[n]
                history == SelectSeq(orderData, LAMBDA o :
                               o.orderId = s.orderId /\ Visible(o, lastCall.params))
            IN  (\E i, j \in 1..Len(history) :
                    i < j /\ isDelivered(history[i]) /\ isRtsRto(history[j]))
                => s.statusChangeDetected

\* C10: the suggestions are made for exactly the stored line items that the shared test
\* classifies RTS/RTO (status containing rts or rto in any case, or a return-initiated
\* date), whose order date is in the window and whose order is not reconciled.
C10_CandidatesAreClassifiedReturns ==
    DetectReturned =>
        LET expected == {i \in 1..Len(orderData) :
                            /\ Visible(orderData[i], lastCall.params)
                            /\ isRtsRto(orderData[i])
                            /\ InOrderWindow(orderData[i], lastCall.params)
                            /\ orderData[i].orderId \notin ReconciledOrderIds}
        IN  /\ \A i \in expected :
                  \E n \in 1..Len(lastCall.result) : MadeFor(lastCall.result[n], orderData[i])
            /\ \A n \in 1..Len(lastCall.result) :
                  \E i \in expected : MadeFor(lastCall.result[n], orderData[i])

-----------------------------------------------------------------------------
(* Price and rate tables *)

\* The characters of the model's texts in code-point order
Alphabet ==
    <<" ", "-", ".", "0", "1", "2", "3", "4", "5", "6", "7", "8", "9", "<", ">", "@",
      "A", "B", "C", "D", "E", "F", "G", "H", "I", "J", "K", "L", "M",
      "N", "O", "P", "Q", "R", "S", "T", "U", "V", "W", "X", "Y", "Z",
      "a", "b", "c", "d", "e", "f", "g", "h", "i", "j", "k", "l", "m",
      "n", "o", "p", "q", "r", "s", "t", "u", "v", "w", "x", "y", "z", "|">>
CharCode(c) == CHOOSE i \in 1..Len(Alphabet) : Alphabet[i] = c

\* asc(text column): negative, zero or positive as a sorts before, with or after b
RECURSIVE TextCompare(_, _)
TextCompare(a, b) ==
    IF a = <<>> /\ b = <<>> THEN 0
    ELSE IF a = <<>> THEN -1
    ELSE IF b = <<>> THEN 1
    ELSE IF Head(a) # Head(b) THEN CharCode(Head(a)) - CharCode(Head(b))
    ELSE TextCompare(Tail(a), Tail(b))

Digit(d) == Alphabet[3 + d + 1]

\* A DECIMAL(8,3) weight, kept in thousandths, as the text the driver returns ('0.500')
DecimalText(thousandths) ==
    <<Digit((thousandths \div 1000) % 10), ".", Digit((thousandths \div 100) % 10),
      Digit((thousandths \div 10) % 10), Digit(thousandths % 10)>>

\* `${0.5}`: the default weight is a number and prints as '0.5'
DefaultWeightText == <<"0", ".", "5">>

\* NULL weight of product_prices
NullWeight == -1

\* ORDER BY dropshipper_email, product_uid
PriceCompare(a, b) ==
    IF TextCompare(a.dropshipperEmail, b.dropshipperEmail) # 0
    THEN TextCompare(a.dropshipperEmail, b.dropshipperEmail)
    ELSE TextCompare(a.productUid, b.productUid)

\* ORDER BY product_uid, product_weight, shipping_provider
RateCompare(a, b) ==
    IF TextCompare(a.productUid, b.productUid) # 0
    THEN TextCompare(a.productUid, b.productUid)
    ELSE IF a.productWeight # b.productWeight THEN a.productWeight - b.productWeight
    ELSE TextCompare(a.shippingProvider, b.shippingProvider)

RECURSIVE InsertPrice(_, _)
InsertPrice(sorted, x) ==
    IF sorted = <<>> THEN <<x>>
    ELSE IF PriceCompare(sorted[Len(sorted)], x) <= 0 THEN Append(sorted, x)
    ELSE Append(InsertPrice(SubSeq(sorted, 1, Len(sorted) - 1), x), sorted[Len(sorted)])
RECURSIVE SortPrices(_)
SortPrices(t) ==
    IF t = <<>> THEN <<>> ELSE InsertPrice(SortPrices(SubSeq(t, 1, Len(t) - 1)), t[Len(t)])
getProductPrices == SortPrices(productPrices)

RECURSIVE InsertRate(_, _)
InsertRate(sorted, x) ==
    IF sorted = <<>> THEN <<x>>
    ELSE IF RateCompare(sorted[Len(sorted)], x) <= 0 THEN Append(sorted, x)
    ELSE Append(InsertRate(SubSeq(sorted, 1, Len(sorted) - 1), x), sorted[Len(sorted)])
RECURSIVE SortRates(_)
SortRates(t) ==
    IF t = <<>> THEN <<>> ELSE InsertRate(SortRates(SubSeq(t, 1, Len(t) - 1)), t[Len(t)])
getShippingRates == SortRates(shippingRates)

\* The first of the positions of a table whose rows pass a test, 0 when none does
FirstMatch(positions) == IF positions = {} THEN 0 ELSE Least(positions)

\* upsertProductPrice(price): the row of the key is looked up; it is updated in place when
\* found and inserted with a fresh id otherwise
upsertProductPrice(price) ==
    LET at == FirstMatch({ i \in 1..Len(productPrices) :
                  /\ productPrices[i].dropshipperEmail = price.dropshipperEmail
                  /\ productPrices[i].productUid = price.productUid })
    IN  /\ productPrices' =
              (IF at # 0
               THEN [productPrices EXCEPT ![at] = WithId(price, productPrices[at].id)]
               ELSE Append(productPrices,
                           WithId(price, Uuid("price", Len(productPrices) + 1))))
        /\ lastCall' = [op |-> "upsertProductPrice"]
        /\ UNCHANGED <<userSessions, calls, paymentCycles, orderData, shippingRates, payoutLog, rtsRtoReconciliation, uploadSessions>>

\* upsertShippingRate(rate): likewise, on (product, weight, carrier)
upsertShippingRate(rate) ==
    LET at == FirstMatch({ i \in 1..Len(shippingRates) :
                  /\ shippingRates[i].productUid = rate.productUid
                  /\ shippingRates[i].productWeight = rate.productWeight
                  /\ shippingRates[i].shippingProvider = rate.shippingProvider })
    IN  /\ shippingRates' =
              (IF at # 0
               THEN [shippingRates EXCEPT ![at] = WithId(rate, shippingRates[at].id)]
               ELSE Append(shippingRates,
                           WithId(rate, Uuid("rate", Len(shippingRates) + 1))))
        /\ lastCall' = [op |-> "upsertShippingRate"]
        /\ UNCHANGED <<userSessions, calls, paymentCycles, orderData, productPrices, payoutLog, rtsRtoReconciliation, uploadSessions>>

-----------------------------------------------------------------------------
(* calculatePayouts *)

ExcludedEmails == {SystemEmail1, SystemEmail2}

\* The WHERE clause of the order query: never a system account, and the dropshipper of the
\* request (compared in lower case) when one is given
InScope(order, request) ==
    /\ ToLowerCase(order.dropshipperEmail) \notin ExcludedEmails
    /\ \/ request.dropshipperEmail = NullText
       \/ request.dropshipperEmail = <<>>
       \/ ToLowerCase(order.dropshipperEmail) = ToLowerCase(request.dropshipperEmail)

\* prices.filter(...) when a dropshipper is given
PricesInScope(prices, request) ==
    IF request.dropshipperEmail = NullText \/ request.dropshipperEmail = <<>>
    THEN prices
    ELSE SelectSeq(prices, LAMBDA p :
             ToLowerCase(p.dropshipperEmail) = ToLowerCase(request.dropshipperEmail))

\* priceMap.get(`${email}|${uid}`) || 0: the last row set under the key
PriceMapGet(prices, key) ==
    LET hits == SelectSeq(prices, LAMBDA p : Key2(p.dropshipperEmail, p.productUid) = key)
    IN  IF hits = <<>> THEN 0 ELSE hits[Len(hits)].productCostPerUnit

RateKey(r) == Key3(r.productUid, DecimalText(r.productWeight), r.shippingProvider)

\* rateMap.get(key) || 0
RateMapGet(rates, key) ==
    LET hits == SelectSeq(rates, LAMBDA r : RateKey(r) = key)
    IN  IF hits = <<>> THEN 0 ELSE hits[Len(hits)].shippingRatePerKg

\* The first row of each key of the rate table, with its position
FirstRateRows(rates) ==
    SelectSeq([i \in 1..Len(rates) |-> [at |-> i, row |-> rates[i]]],
              LAMBDA e : \A j \in 1..(e.at - 1) : RateKey(rates[j]) # RateKey(e.row))

\* Array.from(rateMap.entries()): each key once, at the place of its first row, with the
\* value of its last row
RateMapEntries(rates) ==
    [n \in 1..Len(FirstRateRows(rates)) |->
        [key |-> RateKey(FirstRateRows(rates)[n].row),
         rate |-> RateMapGet(rates, RateKey(FirstRateRows(rates)[n].row))]]

\* prices.find(same e-mail and product)?.productWeight || 0.5, as the text put into the key
ProductWeightText(order, prices) ==
    LET at == FirstMatch({ i \in 1..Len(prices) :
                  /\ prices[i].dropshipperEmail = order.dropshipperEmail
                  /\ prices[i].productUid = order.productUid })
    IN  IF at = 0 \/ prices[at].productWeight = NullWeight
        THEN DefaultWeightText
        ELSE DecimalText(prices[at].productWeight)

\* `${order.productUid}|${productWeight}|${order.shippingProvider}`
ExactKey(order, prices) ==
    Key3(order.productUid, ProductWeightText(order, prices), order.shippingProvider)

\* The loop over the entries: the first entry of the same product and carrier with a
\* positive rate, 0 when there is none
FallbackEntry(order, entries) ==
    FirstMatch({ i \in 1..Len(entries) :
        /\ SplitBar(entries[i].key)[1] = order.productUid
        /\ Len(SplitBar(entries[i].key)) >= 3
        /\ SplitBar(entries[i].key)[3] = order.shippingProvider
        /\ entries[i].rate > 0 })

\* flatShippingRate: the exact rate when positive, else the rate of the fallback entry,
\* else 0
FlatShippingRate(exactRate, entries, at) ==
    IF exactRate > 0 THEN exactRate
    ELSE IF at # 0 THEN entries[at].rate
    ELSE 0

RateAmong(order, exactRate, entries) ==
    FlatShippingRate(exactRate, entries, FallbackEntry(order, entries))

\* The rate found in the rate table for the item
ConfiguredRate(order, prices, rates) ==
    RateAmong(order, RateMapGet(rates, ExactKey(order, prices)), RateMapEntries(rates))

\* defaultRates[order.shippingProvider] || 25
DefaultRate(shippingProvider) ==
    CASE shippingProvider = <<"D","e","l","h","i","v","e","r","y">> -> 2500
      [] shippingProvider = Bluedart -> 3000
      [] shippingProvider = <<"E","k","a","r","t">> -> 2000
      [] shippingProvider = <<"E","k","a","r","t","-","P","x">> -> 2000
      [] shippingProvider = <<"D","T","D","C">> -> 2500
      [] shippingProvider = <<"E","c","o","m"," ","E","x","p","r","e","s","s">> -> 2200
      [] shippingProvider = <<"S","h","a","d","o","w","f","a","x">> -> 2000
      [] shippingProvider = <<"T","r","a","c","k","o","n">> -> 2500
      [] OTHER -> 2500

\* if (shippingRate === 0) shippingRate = defaultRates[...] || 25
OrDefaultRate(rate, shippingProvider) ==
    IF rate = 0 THEN DefaultRate(shippingProvider) ELSE rate

\* The shippingRate shown on the row: the configured rate, else the carrier default
RowShippingRate(order, prices, rates) ==
    OrDefaultRate(ConfiguredRate(order, prices, rates), order.shippingProvider)

\* A charge that falls back on the carrier default when no rate is configured
ShippingCostWithDefault(order, prices, rates) ==
    order.qty * RowShippingRate(order, prices, rates)

\* shippingCost = Math.round(order.qty * flatShippingRate * 100) / 100: the configured rate
\* only, 0 when none is configured
ShippingCostOf(order, prices, rates) == order.qty * ConfiguredRate(order, prices, rates)

\* An order window that runs to the last second of orderDateTo
inOrderDateRangeToEndOfDay(order, request) ==
    /\ order.orderDate >= DateOf(request.orderDateFrom)
    /\ order.orderDate <= EndOfDay(request.orderDateTo)

inOrderDateRange(order, request) ==
    /\ order.orderDate >= DateOf(request.orderDateFrom)
    /\ order.orderDate <= DateOf(request.orderDateTo)

\* A delivery window that ends at the first instant of deliveredDateTo
inDeliveredDateRangeToMidnight(order, request) ==
    /\ order.deliveredDate # NullDate
    /\ order.deliveredDate >= DateOf(request.deliveredDateFrom)
    /\ order.deliveredDate <= DateOf(request.deliveredDateTo)

\* deliveredDate && deliveredDate >= new Date(deliveredDateFrom)
\*               && deliveredDate <= new Date(deliveredDateTo + ' 23:59:59')
inDeliveredDateRange(order, request) ==
    /\ order.deliveredDate # NullDate
    /\ order.deliveredDate >= DateOf(request.deliveredDateFrom)
    /\ order.deliveredDate <= EndOfDay(request.deliveredDateTo)

\* A COD amount multiplied by the quantity
CodReceivedTimesQty(order) == order.qty * order.productValue

\* codReceived = Number(order.productValue) || 0
CodReceivedOf(order) == order.productValue

\* if (isCancelled && inOrderDateRange) continue
SkipsItem(order, request) == isCancelled(order) /\ inOrderDateRange(order, request)

\* if (inOrderDateRange && !isCancelled): the item is charged for shipping
ChargedForShipping(order, request) ==
    inOrderDateRange(order, request) /\ ~isCancelled(order)

\* if (isDelivered && inDeliveredDateRange)
DeliveredInRange(order, request) ==
    isDelivered(order) /\ inDeliveredDateRange(order, request)

\* The amounts of an item whose order is counted among the orders with a product amount
\* only when its product has a unit price
ItemAmountsCountingPriced(order, request, charge, productPrice) ==
    [ shippingCost |-> IF ChargedForShipping(order, request) THEN charge ELSE 0,
      countsShipping |-> ChargedForShipping(order, request) /\ charge > 0,
      codReceived |->
          IF DeliveredInRange(order, request) /\ isCodOrder(order)
          THEN CodReceivedOf(order) ELSE 0,
      countsCod |-> DeliveredInRange(order, request) /\ isCodOrder(order),
      productCost |->
          IF DeliveredInRange(order, request) THEN order.qty * productPrice ELSE 0,
      countsProduct |-> DeliveredInRange(order, request) /\ productPrice > 0,
      deliveredQty |-> IF DeliveredInRange(order, request) THEN order.qty ELSE 0 ]

\* One pass of the inner loop for an item that is not skipped: the amounts of the item,
\* given the charge of a charged item and the unit price of its product
ItemAmounts(order, request, charge, productPrice) ==
    [ shippingCost |-> IF ChargedForShipping(order, request) THEN charge ELSE 0,
      countsShipping |-> ChargedForShipping(order, request) /\ charge > 0,
      codReceived |->
          IF DeliveredInRange(order, request) /\ isCodOrder(order)
          THEN CodReceivedOf(order) ELSE 0,
      countsCod |-> DeliveredInRange(order, request) /\ isCodOrder(order),
      productCost |->
          IF DeliveredInRange(order, request) THEN order.qty * productPrice ELSE 0,
      countsProduct |-> DeliveredInRange(order, request),
      deliveredQty |-> IF DeliveredInRange(order, request) THEN order.qty ELSE 0 ]

\* A row whose payable leaves the product cost out
PayoutRowGrossPayable(order, amounts, shippingRate) ==
    [ orderId          |-> order.orderId,
      productUid       |-> order.productUid,
      dropshipperEmail |-> order.dropshipperEmail,
      orderDate        |-> order.orderDate,
      shippingProvider |-> order.shippingProvider,
      qty              |-> order.qty,
      status           |-> order.status,
      shippingRate     |-> shippingRate,
      shippingCost     |-> amounts.shippingCost,
      productCost      |-> amounts.productCost,
      payable          |-> amounts.codReceived - amounts.shippingCost,
      deliveredQty     |-> amounts.deliveredQty,
      codReceived      |-> amounts.codReceived ]

\* rows.push({...})
PayoutRow(order, amounts, shippingRate) ==
    [ orderId          |-> order.orderId,
      productUid       |-> order.productUid,
      dropshipperEmail |-> order.dropshipperEmail,
      orderDate        |-> order.orderDate,
      shippingProvider |-> order.shippingProvider,
      qty              |-> order.qty,
      status           |-> order.status,
      shippingRate     |-> shippingRate,
      shippingCost     |-> amounts.shippingCost,
      productCost      |-> amounts.productCost,
      payable          |-> amounts.codReceived - amounts.shippingCost - amounts.productCost,
      deliveredQty     |-> amounts.deliveredQty,
      codReceived      |-> amounts.codReceived ]

RECURSIVE GroupDistinctLines(_)
\* A grouping that keeps one line of the lines that differ in their id only
GroupDistinctLines(orders) ==
    IF orders = <<>> THEN <<>>
    ELSE LET first == Head(orders)
             same(o) == [f \in DOMAIN o \ {"id"} |-> o[f]] = [f \in DOMAIN first \ {"id"} |-> first[f]]
             others == SelectSeq(Tail(orders), LAMBDA o : ~same(o))
         IN  <<first>>
             \o SelectSeq(GroupDistinctLines(others), LAMBDA o : o.orderId = first.orderId)
             \o SelectSeq(GroupDistinctLines(others), LAMBDA o : o.orderId # first.orderId)

\* orderGroups: the items grouped by orderId, groups in the order of their first item
RECURSIVE GroupByOrderId(_)
GroupByOrderId(orders) ==
    IF orders = <<>> THEN <<>>
    ELSE SelectSeq(orders, LAMBDA o : o.orderId = Head(orders).orderId)
         \o GroupByOrderId(SelectSeq(orders, LAMBDA o : o.orderId # Head(orders).orderId))

EmptyTotals ==
    [ shippingTotal |-> 0, codTotal |-> 0, productCostTotal |-> 0,
      rtsRtoReversalTotal |-> 0,
      uniqueShippingOrders |-> {}, uniqueProductAmountOrders |-> {},
      uniqueCodOrders |-> {}, rows |-> <<>> ]

\* The running totals after an item that is not skipped
AddItem(acc, order, a, shippingRate) ==
    [ shippingTotal |-> acc.shippingTotal + a.shippingCost,
      codTotal |-> acc.codTotal + a.codReceived,
      productCostTotal |-> acc.productCostTotal + a.productCost,
      rtsRtoReversalTotal |-> acc.rtsRtoReversalTotal,
      uniqueShippingOrders |->
          IF a.countsShipping THEN acc.uniqueShippingOrders \cup {order.orderId}
          ELSE acc.uniqueShippingOrders,
      uniqueProductAmountOrders |->
          IF a.countsProduct THEN acc.uniqueProductAmountOrders \cup {order.orderId}
          ELSE acc.uniqueProductAmountOrders,
      uniqueCodOrders |->
          IF a.countsCod THEN acc.uniqueCodOrders \cup {order.orderId}
          ELSE acc.uniqueCodOrders,
      rows |-> Append(acc.rows, PayoutRow(order, a, shippingRate)) ]

\* One pass of the inner loop
ProcessItem(acc, order, prices, rates, request) ==
    IF SkipsItem(order, request) THEN acc
    ELSE AddItem(acc, order,
                 ItemAmounts(order, request, ShippingCostOf(order, prices, rates),
                     PriceMapGet(prices, Key2(order.dropshipperEmail, order.productUid))),
                 RowShippingRate(order, prices, rates))

\* The loop over the items: the running totals after the items of `orders`
RECURSIVE Accumulate(_, _, _, _, _)
Accumulate(acc, orders, prices, rates, request) ==
    IF orders = <<>> THEN acc
    ELSE Accumulate(ProcessItem(acc, Head(orders), prices, rates, request),
                    Tail(orders), prices, rates, request)

\* A final amount put together from the rounded totals
FinalPayableOfRounded(t) ==
    RoundUnits(t.codTotal) - RoundUnits(t.shippingTotal) - RoundUnits(t.productCostTotal)
        + RoundUnits(t.rtsRtoReversalTotal)

\* Math.round(codTotal - shippingTotal - productCostTotal + rtsRtoReversalTotal)
FinalPayable(t) ==
    RoundUnits(t.codTotal - t.shippingTotal - t.productCostTotal + t.rtsRtoReversalTotal)

\* The value returned with the running totals t; `totals` keeps the un-rounded running
\* totals at the return
ResultOf(t) ==
    [ summary |->
          [ shippingTotal |-> RoundUnits(t.shippingTotal),
            codTotal |-> RoundUnits(t.codTotal),
            productCostTotal |-> RoundUnits(t.productCostTotal),
            rtsRtoReversalTotal |-> RoundUnits(t.rtsRtoReversalTotal),
            finalPayable |-> FinalPayable(t),
            ordersWithShippingCharges |-> Cardinality(t.uniqueShippingOrders),
            ordersWithProductAmount |-> Cardinality(t.uniqueProductAmountOrders),
            ordersWithCodAmount |-> Cardinality(t.uniqueCodOrders),
            totalOrdersProcessed |-> Len(t.rows) ],
      rows |-> t.rows,
      adjustments |-> <<>>,
      totals |-> [t EXCEPT !.rows = <<>>] ]

\* The value calculatePayouts returns for the rows the order query returned
PayoutResult(orders, allPrices, rates, request) ==
    ResultOf(Accumulate(EmptyTotals, GroupByOrderId(orders),
                        PricesInScope(allPrices, request), rates, request))

\* calculatePayouts(request): reads order_data (no ORDER BY: any order), product_prices and
\* shipping_rates, and writes nothing
calculatePayouts(request) ==
    \E orderPerm \in Permutations(1..Len(orderData)) :
        /\ lastCall' = [op |-> "calculatePayouts",
                        request |-> request,
                        result |-> PayoutResult(
                            SelectSeq(InStoreOrder(orderData, orderPerm),
                                      LAMBDA o : InScope(o, request)),
                            getProductPrices, getShippingRates, request)]
        /\ UNCHANGED <<userSessions, calls, paymentCycles, orderData, productPrices, shippingRates, payoutLog,
                       rtsRtoReconciliation, uploadSessions>>

-----------------------------------------------------------------------------
(* The payout specification: uploads of line items, price and rate configuration, and
   payout calculations *)

MaxLineItems == 2

LineItemInputs ==
    { \* order A1: a COD item and a prepaid item, delivered
      OrderInput("A1", EmailA, <<"P">>, 2, 100060, ModeCOD, StDelivered,
                 Noon(2), Noon(5), NullDate, Bluedart),
      OrderInput("A1", EmailA, <<"P">>, 2, 50000, ModePrepaid, StDelivered,
                 Noon(2), Noon(5), NullDate, Bluedart),
      \* order A2: a cancelled item, and an item ordered after the window but delivered in it
      OrderInput("A2", EmailA, <<"P">>, 3, 30000, ModeCOD, StCancelled,
                 Noon(2), NullDate, NullDate, Bluedart),
      OrderInput("A2", EmailA, <<" ", "P">>, 1, 20050, ModeCodPadded, StDelivered,
                 Noon(9), Noon(5), NullDate, Bluedart),
      \* order A3: four units with a carrier for which no rate is configured
      OrderInput("A3", EmailA, <<"P">>, 4, 40000, NullText, StInTransit,
                 Noon(2), NullDate, NullDate, CarrierX),
      \* order A4: an item of a system account
      OrderInput("A4", SystemEmail1, <<"P">>, 1, 10000, ModeCOD, StDelivered,
                 Noon(2), Noon(5), NullDate, Bluedart) }

ProductOfA == generateProductUid(<<"P">>, EmailA)

\* The price of the product of dropshipper a, with a weight and without one
PriceInputs ==
    { [dropshipperEmail |-> EmailA, productUid |-> ProductOfA,
       productWeight |-> 500, productCostPerUnit |-> 2500],
      [dropshipperEmail |-> EmailA, productUid |-> ProductOfA,
       productWeight |-> NullWeight, productCostPerUnit |-> 2510] }

\* Two rates of the product with the carrier Bluedart, for 0.5 kg and for 1 kg
RateInputs ==
    { [productUid |-> ProductOfA, productWeight |-> 500,
       shippingProvider |-> Bluedart, shippingRatePerKg |-> 10020],
      [productUid |-> ProductOfA, productWeight |-> 1000,
       shippingProvider |-> Bluedart, shippingRatePerKg |-> 3000] }

PayoutRequests ==
    { [orderDateFrom |-> 1, orderDateTo |-> 3, deliveredDateFrom |-> 4,
       deliveredDateTo |-> 6, dropshipperEmail |-> email] :
          email \in {NullText, EmailAUpper} }

UploadLineItem ==
    /\ Len(orderData) < MaxLineItems
    /\ \E o \in LineItemInputs :
           /\ NotYetSubmitted(o, orderData)
           /\ insertOrderData(<<o>>)

UpsertPrice == \E price \in PriceInputs : upsertProductPrice(price)

UpsertRate == \E rate \in RateInputs : upsertShippingRate(rate)

CalculatePayouts == \E request \in PayoutRequests : calculatePayouts(request)

NextPayout ==
    \/ UploadLineItem
    \/ UpsertPrice
    \/ UpsertRate
    \/ CalculatePayouts

SpecPayout == Init /\ [][NextPayout]_vars

-----------------------------------------------------------------------------
(* Properties of calculatePayouts *)

PayoutReturned == lastCall.op = "calculatePayouts"

\* The line items the call read, in the order of their ingestion
ItemsRead == SelectSeq(orderData, LAMBDA o : InScope(o, lastCall.request))

RemoveAt(seq, i) == SubSeq(seq, 1, i - 1) \o SubSeq(seq, i + 1, Len(seq))

RECURSIVE SumOf(_, _)
SumOf(rows, field) ==
    IF rows = <<>> THEN 0 ELSE Head(rows)[field] + SumOf(Tail(rows), field)

CancelledStatus(status) == Includes(ToLowerCase(status), <<"c","a","n","c","e","l">>)

OrderDateInWindow(orderDate, request) ==
    /\ orderDate >= DateOf(request.orderDateFrom)
    /\ orderDate <= DateOf(request.orderDateTo)

\* A rate row exists for the product and the carrier, whatever its weight
HasRateRow(productUid, shippingProvider) ==
    \E i \in 1..Len(shippingRates) :
        /\ shippingRates[i].productUid = productUid
        /\ shippingRates[i].shippingProvider = shippingProvider

\* The rows of the result for items that are not cancelled, are ordered in the window and
\* have no rate row for their product and carrier
UnratedRows ==
    { n \in 1..Len(lastCall.result.rows) :
          LET r == lastCall.result.rows[n]
          IN  /\ ~CancelledStatus(r.status)
              /\ OrderDateInWindow(r.orderDate, lastCall.request)
              /\ ~HasRateRow(r.productUid, r.shippingProvider) }

\* C3 as stated: a non-cancelled item ordered in the window, with no rate row for its
\* product and carrier, is charged quantity x the default rate of its carrier
C3_UnratedItemChargedDefault ==
    PayoutReturned =>
        \A n \in UnratedRows :
            LET r == lastCall.result.rows[n]
            IN  r.shippingCost = r.qty * DefaultRate(r.shippingProvider)

\* C3 as amended: such an item is charged 0 on its row and in shippingTotal, and does not
\* make its order count in ordersWithShippingCharges; only the shippingRate shown on the
\* row is the default rate of the carrier (the global default for an unknown carrier)
C3_UnratedItemChargedNothing ==
    PayoutReturned =>
        LET res == lastCall.result
            rated == SelectSeq(res.rows, LAMBDA r :
                         HasRateRow(r.productUid, r.shippingProvider))
        IN  /\ \A n \in UnratedRows :
                  /\ res.rows[n].shippingCost = 0
                  /\ res.rows[n].shippingRate = DefaultRate(res.rows[n].shippingProvider)
            /\ res.totals.shippingTotal = SumOf(rated, "shippingCost")
            /\ res.summary.ordersWithShippingCharges
                   = Cardinality({ r.orderId : r \in { x \in SeqToSet(rated) :
                                                          x.shippingCost > 0 } })

\* Four units with carrier X and no rate for it, next to an item that is charged
C3_Witness ==
    /\ PayoutReturned
    /\ \E n \in UnratedRows :
           /\ lastCall.result.rows[n].qty = 4
           /\ lastCall.result.rows[n].shippingProvider = CarrierX
           /\ lastCall.result.rows[n].shippingRate = 2500
    /\ lastCall.result.totals.shippingTotal > 0

\* C4: a cancelled item ordered in the window adds 0 to shippingTotal and never makes its
\* order count in ordersWithShippingCharges: the total and the count are those of the rows
\* of the other items, and no row of such an item carries a charge
C4_CancelledNeverCharged ==
    PayoutReturned =>
        LET res == lastCall.result
            others == SelectSeq(res.rows, LAMBDA r :
                          ~(CancelledStatus(r.status)
                            /\ OrderDateInWindow(r.orderDate, lastCall.request)))
        IN  /\ res.totals.shippingTotal = SumOf(others, "shippingCost")
            /\ res.totals.uniqueShippingOrders
                   = { r.orderId : r \in { x \in SeqToSet(others) : x.shippingCost > 0 } }
            /\ res.summary.ordersWithShippingCharges
                   = Cardinality(res.totals.uniqueShippingOrders)
            /\ \A n \in 1..Len(res.rows) :
                   (/\ CancelledStatus(res.rows[n].status)
                    /\ OrderDateInWindow(res.rows[n].orderDate, lastCall.request))
                   => res.rows[n].shippingCost = 0

\* A cancelled item of three units, ordered in the window, whose product and carrier have a
\* positive rate, was read by a call that charged another order
C4_Witness ==
    /\ PayoutReturned
    /\ \E i \in 1..Len(ItemsRead) :
           /\ CancelledStatus(ItemsRead[i].status)
           /\ OrderDateInWindow(ItemsRead[i].orderDate, lastCall.request)
           /\ ItemsRead[i].qty = 3
           /\ \E k \in 1..Len(shippingRates) :
                  /\ shippingRates[k].productUid = ItemsRead[i].productUid
                  /\ shippingRates[k].shippingProvider = ItemsRead[i].shippingProvider
                  /\ shippingRates[k].shippingRatePerKg > 0
           /\ ItemsRead[i].orderId \notin lastCall.result.totals.uniqueShippingOrders
    /\ lastCall.result.totals.shippingTotal > 0

\* The item is classified Delivered and its delivered date lies in the delivery window
DeliveredInWindow(o, request) ==
    /\ Includes(ToLowerCase(o.status), <<"d","e","l","i","v","e","r","e","d">>)
    /\ o.deliveredDate # NullDate
    /\ o.deliveredDate >= DateOf(request.deliveredDateFrom)
    /\ o.deliveredDate <= EndOfDay(request.deliveredDateTo)

\* The mode is null, blank or 'cod'
CodMode(mode) ==
    \/ mode = NullText
    \/ Trim(ToLowerCase(mode)) = <<>>
    \/ Trim(ToLowerCase(mode)) = <<"c","o","d">>

\* The unit cost configured for the dropshipper and product of the item among the prices
\* the call uses, 0 when none is
ResolvedUnitCost(o, request) ==
    LET hits == { p \in SeqToSet(productPrices) :
                      /\ p.dropshipperEmail = o.dropshipperEmail
                      /\ p.productUid = o.productUid
                      /\ \/ request.dropshipperEmail = NullText
                         \/ ToLowerCase(p.dropshipperEmail)
                                = ToLowerCase(request.dropshipperEmail) }
    IN  IF hits = {} THEN 0 ELSE (CHOOSE p \in hits : TRUE).productCostPerUnit

\* The un-rounded totals of the same call had it not read the item at position i
TotalsWithout(i) ==
    PayoutResult(RemoveAt(ItemsRead, i), getProductPrices, getShippingRates,
                 lastCall.request).totals

C6_FinalPayableRoundedOnce ==
    PayoutReturned =>
        LET res == lastCall.result
            t == res.totals
        IN  /\ res.summary.finalPayable
                   = RoundUnits(t.codTotal - t.shippingTotal - t.productCostTotal
                                + t.rtsRtoReversalTotal)
            /\ res.summary.finalPayable
                   = RoundUnits(SumOf(res.rows, "payable") + t.rtsRtoReversalTotal)
            /\ (t.codTotal = 100060 /\ t.shippingTotal = 20040 /\ t.productCostTotal = 5000
                /\ t.rtsRtoReversalTotal = 0)
                   => res.summary.finalPayable = 750

\* The running totals are 1000.60, 200.40 and 50.00: the rounded totals 1001, 200 and 50
\* would combine to 751
C6_Witness ==
    /\ PayoutReturned
    /\ lastCall.result.totals.codTotal = 100060
    /\ lastCall.result.totals.shippingTotal = 20040
    /\ lastCall.result.totals.productCostTotal = 5000
    /\ lastCall.result.summary.codTotal = 1001
    /\ lastCall.result.summary.shippingTotal = 200
    /\ lastCall.result.summary.productCostTotal = 50
    /\ lastCall.result.summary.finalPayable = 750

-----------------------------------------------------------------------------
(* The ranking specification: returns of three orders, two of them paid out with different
   amounts, and detection runs *)

ReturnInputs ==
    { Snapshot("A1", EmailA, StDelivered, 100000, NullDate),
      Snapshot("A1", EmailA, StRTO, 100000, NullDate),
      Snapshot("A2", EmailB, StRTS, 2000, NullDate),
      Snapshot("A3", EmailA, StRTOIT, 5000, NullDate) }

RankedPayoutInputs ==
    { [orderId |-> "A1", dropshipperEmail |-> EmailA,
       productUid |-> generateProductUid(<<"P">>, EmailA), paidAmount |-> 20000],
      [orderId |-> "A2", dropshipperEmail |-> EmailB,
       productUid |-> generateProductUid(<<"P">>, EmailB), paidAmount |-> 30000] }

UploadReturn ==
    /\ Len(orderData) < MaxOrders
    /\ \E o \in ReturnInputs :
           /\ NotYetSubmitted(o, orderData)
           /\ insertOrderData(<<o>>)

RecordRankedPayout ==
    \E log \in RankedPayoutInputs :
        /\ NotYetSubmitted(log, payoutLog)
        /\ insertPayoutLog(log)

AutoDetectAll ==
    autoDetectRtsRtoReconciliations(
        [orderDateFrom |-> 1, orderDateTo |-> 3, dropshipperEmail |-> NullText])

NextRanking ==
    \/ UploadReturn
    \/ RecordRankedPayout
    \/ AutoDetectAll

SpecRanking == Init /\ [][NextRanking]_vars

\* C11: the returned list has every 'high' before every 'medium' before every 'low', and
\* suggestions of equal confidence in non-increasing order of suggestedReversalAmount
C11_SortedByConfidenceThenAmount ==
    DetectReturned =>
        \A i, j \in 1..Len(lastCall.result) :
            i < j =>
                LET a == lastCall.result[i]
                    b == lastCall.result[j]
                    Rank(c) == CASE c = "high" -> 3 [] c = "medium" -> 2 [] c = "low" -> 1
                IN  /\ Rank(a.confidence) >= Rank(b.confidence)
                    /\ a.confidence = b.confidence
                           => a.suggestedReversalAmount >= b.suggestedReversalAmount

\* A list of three suggestions: two 'medium' with the amounts 300.00 and 200.00 ahead of a
\* 'low', from a store that returned the smaller amount's order first
C11_Witness ==
    /\ DetectReturned
    /\ Len(lastCall.result) = 3
    /\ lastCall.result[1].confidence = "medium"
    /\ lastCall.result[1].suggestedReversalAmount = 30000
    /\ lastCall.result[2].confidence = "medium"
    /\ lastCall.result[2].suggestedReversalAmount = 20000
    /\ lastCall.result[3].confidence = "low"
    /\ \E i, j \in 1..Len(orderData) :
           i < j /\ orderData[i].orderId = "A1" /\ orderData[j].orderId = "A2"

-----------------------------------------------------------------------------
(* The window specification: items delivered around the end of the delivery window and
   items whose status carries the cancel pattern, one order each *)

TimeOfDay(day, h, m, sec) == DateOf(day) + h * 3600 + m * 60 + sec

StCancelledDelivered ==
    <<"C","a","n","c","e","l","l","e","d"," ","-"," ","D","e","l","i","v","e","r","e","d">>

WindowItem(orderId, status, orderDate, deliveredDate) ==
    OrderInput(orderId, EmailA, <<"P">>, 2, 10000, ModeCOD, status, orderDate, deliveredDate, NullDate, Bluedart)

WindowItemInputs ==
    { \* delivered on the last day of the window at 23:30:00 and at 23:59:59
      WindowItem("B1", StDelivered, Noon(2), TimeOfDay(6, 23, 30, 0)),
      WindowItem("B2", StDelivered, Noon(2), TimeOfDay(6, 23, 59, 59)),
      \* delivered at the first instant of the following day
      WindowItem("B3", StDelivered, Noon(2), TimeOfDay(7, 0, 0, 0)),
      \* cancelled with a delivered date, ordered in and after the order window
      WindowItem("B4", StCancelledDelivered, Noon(2), Noon(5)),
      WindowItem("B5", StCancelledDelivered, Noon(9), Noon(5)),
      \* cancelled, ordered after the window, never delivered
      WindowItem("B6", StCancelled, Noon(9), NullDate) }

WindowRequest ==
    [orderDateFrom |-> 1, orderDateTo |-> 3, deliveredDateFrom |-> 4,
     deliveredDateTo |-> 6, dropshipperEmail |-> NullText]

UploadWindowItem ==
    /\ Len(orderData) < MaxLineItems
    /\ \E o \in WindowItemInputs :
           /\ NotYetSubmitted(o, orderData)
           /\ insertOrderData(<<o>>)

ConfigurePrice ==
    upsertProductPrice([dropshipperEmail |-> EmailA, productUid |-> ProductOfA,
                        productWeight |-> 500, productCostPerUnit |-> 2500])

ConfigureRate ==
    upsertShippingRate([productUid |-> ProductOfA, productWeight |-> 500,
                        shippingProvider |-> Bluedart, shippingRatePerKg |-> 3000])

CalculateWindow == calculatePayouts(WindowRequest)

NextWindow ==
    \/ UploadWindowItem
    \/ ConfigurePrice
    \/ ConfigureRate
    \/ CalculateWindow

SpecWindow == Init /\ [][NextWindow]_vars

\* The calendar day of an instant
DayOf(instant) == instant \div SecondsPerDay

\* C12: a Delivered item delivered at any time of the day deliveredDateTo adds its COD
\* value and quantity x unit cost to the totals and counts its order; an item delivered on
\* the following day adds nothing
C12_LastDayInclusive ==
    PayoutReturned =>
        \A i \in 1..Len(ItemsRead) :
            LET o == ItemsRead[i]
                with == lastCall.result.totals
                without == TotalsWithout(i)
                delivered == /\ o.status = StDelivered
                             /\ o.deliveredDate # NullDate
            IN  /\ (delivered /\ DayOf(o.deliveredDate) = lastCall.request.deliveredDateTo)
                       => /\ with.codTotal = without.codTotal + o.productValue
                          /\ with.productCostTotal = without.productCostTotal
                                 + o.qty * ResolvedUnitCost(o, lastCall.request)
                          /\ o.orderId \in with.uniqueCodOrders
                          /\ o.orderId \in with.uniqueProductAmountOrders
                /\ (delivered /\ DayOf(o.deliveredDate) = lastCall.request.deliveredDateTo + 1)
                       => /\ with.codTotal = without.codTotal
                          /\ with.productCostTotal = without.productCostTotal
                          /\ o.orderId \notin with.uniqueCodOrders
                          /\ o.orderId \notin with.uniqueProductAmountOrders

\* A call read an item delivered at 23:30:00 of the last day and an item delivered at
\* 00:00:00 of the day after, with a unit cost configured; only the first is counted
C12_Witness ==
    /\ PayoutReturned
    /\ \E i, j \in 1..Len(ItemsRead) :
           /\ ItemsRead[i].deliveredDate = TimeOfDay(6, 23, 30, 0)
           /\ ItemsRead[j].deliveredDate = TimeOfDay(7, 0, 0, 0)
           /\ ItemsRead[i].status = StDelivered /\ ItemsRead[j].status = StDelivered
    /\ lastCall.request.deliveredDateTo = 6
    /\ lastCall.result.totals.codTotal = 10000
    /\ lastCall.result.totals.productCostTotal = 5000
    /\ lastCall.result.summary.ordersWithCodAmount = 1

\* C13: an item whose status carries the cancel pattern adds nothing to codTotal,
\* productCostTotal or shippingTotal, wherever its dates lie
C13_CancelledContributesNothing ==
    PayoutReturned =>
        \A i \in 1..Len(ItemsRead) :
            CancelledStatus(ItemsRead[i].status) =>
                /\ lastCall.result.totals.codTotal = TotalsWithout(i).codTotal
                /\ lastCall.result.totals.productCostTotal = TotalsWithout(i).productCostTotal
                /\ lastCall.result.totals.shippingTotal = TotalsWithout(i).shippingTotal

\* C14: on every row payable = codReceived - shippingCost - productCost; the un-rounded
\* totals are the sums of the rows' amounts; finalPayable is the rounded sum of the rows'
\* payable plus the reversal total
C14_SummaryIsSumOverRows ==
    PayoutReturned =>
        LET res == lastCall.result
        IN  /\ \A n \in 1..Len(res.rows) :
                   res.rows[n].payable = res.rows[n].codReceived - res.rows[n].shippingCost
                                             - res.rows[n].productCost
            /\ res.totals.codTotal = SumOf(res.rows, "codReceived")
            /\ res.totals.shippingTotal = SumOf(res.rows, "shippingCost")
            /\ res.totals.productCostTotal = SumOf(res.rows, "productCost")
            /\ res.summary.finalPayable
                   = (SumOf(res.rows, "payable") + res.totals.rtsRtoReversalTotal + 50) \div 100

\* Two rows, with COD, shipping and product-cost amounts among them
C14_Witness ==
    /\ PayoutReturned
    /\ Len(lastCall.result.rows) = 2
    /\ lastCall.result.rows[1].payable # lastCall.result.rows[2].payable
    /\ \E n \in 1..2 : /\ lastCall.result.rows[n].codReceived > 0
                       /\ lastCall.result.rows[n].shippingCost > 0
                       /\ lastCall.result.rows[n].productCost > 0
    /\ lastCall.result.totals.codTotal > 0
    /\ lastCall.result.totals.shippingTotal > lastCall.result.rows[1].shippingCost
    /\ lastCall.result.totals.productCostTotal > lastCall.result.rows[1].productCost

-----------------------------------------------------------------------------
(* Calls in flight: a call runs from one await to the next in one step, and the steps of
   the calls of different clients interleave *)

Tables == <<orderData, productPrices, shippingRates, payoutLog, rtsRtoReconciliation,
           paymentCycles, uploadSessions, userSessions>>

\* The client has no call in flight: it made none, or its last call has returned
AtRest(c) == calls[c].pc \in {"idle", "done"}

\* Another call is in flight when c starts one
Overlaps(c) == \E d \in Clients \ {c} : ~AtRest(d)

\* calculatePayouts is called: nothing is read yet
BeginCalculatePayouts(c, request) ==
    /\ AtRest(c)
    /\ calls' = [calls EXCEPT ![c] = [pc |-> "orders", op |-> "calculatePayouts",
                                      request |-> request, overlapped |-> Overlaps(c)]]
    /\ UNCHANGED <<Tables, lastCall>>

\* const orders = await query
ReadOrders(c) ==
    /\ calls[c].pc = "orders"
    /\ \E orderPerm \in Permutations(1..Len(orderData)) :
           calls' = [calls EXCEPT ![c] =
                        [pc |-> "prices", op |-> calls[c].op, request |-> calls[c].request,
                         overlapped |-> calls[c].overlapped,
                         orders |-> SelectSeq(InStoreOrder(orderData, orderPerm),
                                              LAMBDA o : InScope(o, calls[c].request))]]
    /\ UNCHANGED <<Tables, lastCall>>

\* let prices = await this.getProductPrices()
ReadPrices(c) ==
    /\ calls[c].pc = "prices"
    /\ calls' = [calls EXCEPT ![c] =
                    [pc |-> "rates", op |-> calls[c].op, request |-> calls[c].request,
                     overlapped |-> calls[c].overlapped, orders |-> calls[c].orders,
                     prices |-> getProductPrices]]
    /\ UNCHANGED <<Tables, lastCall>>

\* The orders of another call, kept in a field the calls share
OrdersOfFirstClient(c) ==
    IF "orders" \in DOMAIN calls[1] THEN calls[1].orders ELSE calls[c].orders

\* The local `orders` of the call of c
OrdersOf(c) == calls[c].orders

\* let rates = await this.getShippingRates(), then the loops and the return
ReadRatesAndReturn(c) ==
    /\ calls[c].pc = "rates"
    /\ calls' = [calls EXCEPT ![c] =
                    [pc |-> "done", op |-> calls[c].op, request |-> calls[c].request,
                     overlapped |-> calls[c].overlapped,
                     result |-> PayoutResult(OrdersOf(c), calls[c].prices,
                                             getShippingRates, calls[c].request)]]
    /\ lastCall' = [op |-> "calculatePayouts", request |-> calls[c].request,
                    result |-> calls'[c].result]
    /\ UNCHANGED Tables

\* autoDetectRtsRtoReconciliations is called: nothing is read yet
BeginAutoDetect(c, params) ==
    /\ AtRest(c)
    /\ calls' = [calls EXCEPT ![c] = [pc |-> "allOrders", op |-> "autoDetect",
                                      params |-> params, overlapped |-> Overlaps(c)]]
    /\ UNCHANGED <<Tables, lastCall>>

\* const allOrders = await allOrdersQuery
ReadAllOrders(c) ==
    /\ calls[c].pc = "allOrders"
    /\ \E orderPerm \in Permutations(1..Len(orderData)) :
           calls' = [calls EXCEPT ![c] =
               [pc |-> "alreadyReconciled", op |-> calls[c].op, params |-> calls[c].params,
                overlapped |-> calls[c].overlapped,
                allOrders |->
                    IF calls[c].params.dropshipperEmail # NullText
                       /\ calls[c].params.dropshipperEmail # <<>>
                    THEN SelectSeq(InStoreOrder(orderData, orderPerm), LAMBDA o :
                             o.dropshipperEmail = calls[c].params.dropshipperEmail)
                    ELSE InStoreOrder(orderData, orderPerm)]]
    /\ UNCHANGED <<Tables, lastCall>>

\* const alreadyReconciled = await db.select(...).from(rtsRtoReconciliation)
ReadAlreadyReconciled(c) ==
    /\ calls[c].pc = "alreadyReconciled"
    /\ calls' = [calls EXCEPT ![c] =
                    [pc |-> "priorPayouts", op |-> calls[c].op, params |-> calls[c].params,
                     overlapped |-> calls[c].overlapped, allOrders |-> calls[c].allOrders,
                     alreadyReconciled |-> rtsRtoReconciliation]]
    /\ UNCHANGED <<Tables, lastCall>>

\* const priorPayouts = await db.select().from(payoutLog), then the loop, the sort and the
\* return
ReadPriorPayoutsAndReturn(c) ==
    /\ calls[c].pc = "priorPayouts"
    /\ \E payoutPerm \in Permutations(1..Len(payoutLog)) :
           /\ calls' = [calls EXCEPT ![c] =
                  [pc |-> "done", op |-> calls[c].op, params |-> calls[c].params,
                   overlapped |-> calls[c].overlapped,
                   result |-> DetectSuggestions(calls[c].allOrders,
                                  calls[c].alreadyReconciled,
                                  InStoreOrder(payoutLog, payoutPerm), calls[c].params)]]
           /\ lastCall' = [op |-> "autoDetectRtsRtoReconciliations",
                           params |-> calls[c].params, result |-> calls'[c].result]
    /\ UNCHANGED Tables

-----------------------------------------------------------------------------
(* The readers specification: the tables are filled while no call is in flight, and two
   clients run payout calculations and detection runs whose steps interleave *)

AllAtRest == \A c \in Clients : AtRest(c)

ReaderItemInputs ==
    { OrderInput("A1", EmailA, <<"P">>, 2, 100060, ModeCOD, StDelivered, Noon(2), Noon(5), NullDate, Bluedart),
      OrderInput("A1", EmailA, <<"P">>, 2, 100060, ModeCOD, StRTO, Noon(2), NullDate, NullDate, Bluedart) }

ReaderRequests ==
    { [orderDateFrom |-> 1, orderDateTo |-> 3, deliveredDateFrom |-> 4,
       deliveredDateTo |-> 6, dropshipperEmail |-> email] : email \in {NullText, EmailB} }

ReaderParams == [orderDateFrom |-> 1, orderDateTo |-> 3, dropshipperEmail |-> NullText]

StoreItem ==
    /\ AllAtRest
    /\ \E o \in ReaderItemInputs :
           /\ NotYetSubmitted(o, orderData)
           /\ insertOrderData(<<o>>)

StorePrice == AllAtRest /\ ConfigurePrice

StoreRate == AllAtRest /\ ConfigureRate

StorePayout == AllAtRest /\ RecordPayout

StartCalculatePayouts ==
    \E c \in Clients, request \in ReaderRequests : BeginCalculatePayouts(c, request)

StartAutoDetect == \E c \in Clients : BeginAutoDetect(c, ReaderParams)

StepCalculatePayouts ==
    \E c \in Clients : ReadOrders(c) \/ ReadPrices(c) \/ ReadRatesAndReturn(c)

StepAutoDetect ==
    \E c \in Clients :
        ReadAllOrders(c) \/ ReadAlreadyReconciled(c) \/ ReadPriorPayoutsAndReturn(c)

NextReaders ==
    \/ StoreItem
    \/ StorePrice
    \/ StoreRate
    \/ StorePayout
    \/ StartCalculatePayouts
    \/ StartAutoDetect
    \/ StepCalculatePayouts
    \/ StepAutoDetect

SpecReaders == Init /\ [][NextReaders]_vars

\* What calculatePayouts(request) may return when it runs alone on the tables
AloneCalculatePayouts(request) ==
    { PayoutResult(SelectSeq(InStoreOrder(orderData, perm), LAMBDA o : InScope(o, request)),
                   getProductPrices, getShippingRates, request) :
          perm \in Permutations(1..Len(orderData)) }

\* What autoDetectRtsRtoReconciliations(params) may return when it runs alone
AloneAutoDetect(params) ==
    { DetectSuggestions(
          IF params.dropshipperEmail # NullText /\ params.dropshipperEmail # <<>>
          THEN SelectSeq(InStoreOrder(orderData, perm), LAMBDA o :
                   o.dropshipperEmail = params.dropshipperEmail)
          ELSE InStoreOrder(orderData, perm),
          rtsRtoReconciliation, InStoreOrder(payoutLog, pperm), params) :
          perm \in Permutations(1..Len(orderData)),
          pperm \in Permutations(1..Len(payoutLog)) }

\* The call that returned last, with no write since, returned what it can return alone
ReturnedAsAlone ==
    /\ PayoutReturned => lastCall.result \in AloneCalculatePayouts(lastCall.request)
    /\ DetectReturned => lastCall.result \in AloneAutoDetect(lastCall.params)

\* C15: every step of a calculatePayouts or autoDetectRtsRtoReconciliations call leaves the
\* five tables as they are, and a call whose steps interleave with another call's returns
\* a result it can return when it runs alone on the same tables
C15_ReadOnlyAndIndependent ==
    /\ [][(calls' # calls) => UNCHANGED Tables]_vars
    /\ []ReturnedAsAlone

\* Two calls that overlapped have both returned, a calculation for dropshipper b with no
\* row and a detection run with a suggestion, on tables that hold orders, a price and a
\* payout
C15_Witness ==
    /\ calls[1].pc = "done" /\ calls[2].pc = "done"
    /\ calls[1].overlapped \/ calls[2].overlapped
    /\ \E c \in Clients :
           /\ calls[c].op = "calculatePayouts"
           /\ calls[c].request.dropshipperEmail = EmailB
           /\ calls[c].result.rows = <<>>
    /\ \E c \in Clients :
           /\ calls[c].op = "autoDetect"
           /\ Len(calls[c].result) = 1
    /\ Len(orderData) = 2 /\ productPrices # <<>> /\ payoutLog # <<>>

-----------------------------------------------------------------------------
(* The ledger specification: confirmations, also repeated ones and ones for the same order
   and product, and payout-log inserts *)

MaxConfirmations == 4

\* The confirmations of the reconciliation specification, and a second confirmation for
\* order A1 and its product with another amount
LedgerInputs ==
    ReconciliationInputs
    \cup { [orderId |-> "A1", dropshipperEmail |-> EmailA,
            productUid |-> generateProductUid(<<"P">>, EmailA),
            originalPayoutId |-> NullText, originalPaidAmount |-> 30000,
            reversalAmount |-> 10000, rtsRtoStatus |-> StRTO, status |-> "pending"] }

ConfirmAgain ==
    /\ Len(rtsRtoReconciliation) < MaxConfirmations
    /\ \E data \in LedgerInputs : processRtsRtoReconciliation(data)

NextLedger ==
    \/ ConfirmAgain
    \/ RecordPayout

SpecLedger == Init /\ [][NextLedger]_vars

\* C16: a confirmation adds exactly one record, the one it returns, behind the records the
\* ledger held, which stay as they were, also when the ledger already holds a record for
\* the same order and product; no step updates or deletes a record (a confirmation the
\* store rejects adds none)
C16_ConfirmationOnlyAppends ==
    [][ /\ Len(rtsRtoReconciliation') >= Len(rtsRtoReconciliation)
        /\ SubSeq(rtsRtoReconciliation', 1, Len(rtsRtoReconciliation)) = rtsRtoReconciliation
        /\ (lastCall'.op = "processRtsRtoReconciliation" /\ "result" \in DOMAIN lastCall')
               => /\ Len(rtsRtoReconciliation') = Len(rtsRtoReconciliation) + 1
                  /\ rtsRtoReconciliation'[Len(rtsRtoReconciliation')] = lastCall'.result
                  /\ \A i \in 1..Len(rtsRtoReconciliation) :
                         rtsRtoReconciliation[i].id # lastCall'.result.id ]_vars

\* Three confirmations have been recorded, two of them equal and all three for order A1
\* and its product
C16_Witness ==
    /\ Len(rtsRtoReconciliation) = 3
    /\ \A i \in 1..3 : /\ rtsRtoReconciliation[i].orderId = "A1"
                       /\ rtsRtoReconciliation[i].productUid = generateProductUid(<<"P">>, EmailA)
    /\ WithoutId(rtsRtoReconciliation[1]) = WithoutId(rtsRtoReconciliation[3])
    /\ rtsRtoReconciliation[2].reversalAmount # rtsRtoReconciliation[1].reversalAmount
    /\ lastCall.op = "processRtsRtoReconciliation"

-----------------------------------------------------------------------------
(* Price upserts in flight: upsertProductPrice reads the row of the key, then writes, then
   reads the written row back; bulkUpsertProductPrices runs the upserts of its list one
   after the other *)

\* upsertProductPrice(price) is called, or bulkUpsertProductPrices(prices) with the list
BeginUpsertProductPrices(c, prices) ==
    /\ AtRest(c)
    /\ prices # <<>>
    /\ calls' = [calls EXCEPT ![c] = [pc |-> "existing", op |-> "upsertProductPrice",
                                      price |-> Head(prices), rest |-> Tail(prices)]]
    /\ UNCHANGED <<Tables, lastCall>>

\* const existing = await this.getProductPrice(email, uid): the first row the store returns
\* for the key, none when the key has no row
ReadExisting(c) ==
    /\ calls[c].pc = "existing"
    /\ LET hits == { i \in 1..Len(productPrices) :
                         /\ productPrices[i].dropshipperEmail = calls[c].price.dropshipperEmail
                         /\ productPrices[i].productUid = calls[c].price.productUid }
       IN  \E existing \in (IF hits = {} THEN {NullText}
                            ELSE { productPrices[i].id : i \in hits }) :
               calls' = [calls EXCEPT ![c] =
                            [pc |-> "write", op |-> calls[c].op, price |-> calls[c].price,
                             rest |-> calls[c].rest, existing |-> existing]]
    /\ UNCHANGED <<Tables, lastCall>>

\* if (existing) UPDATE ... WHERE id = existing.id, else INSERT with a fresh id
WritePrice(c) ==
    /\ calls[c].pc = "write"
    /\ LET id == IF calls[c].existing # NullText THEN calls[c].existing
                 ELSE Uuid("price", Len(productPrices) + 1)
       IN  /\ productPrices' =
                 (IF calls[c].existing # NullText
                  THEN [i \in 1..Len(productPrices) |->
                           IF productPrices[i].id = id THEN WithId(calls[c].price, id)
                           ELSE productPrices[i]]
                  ELSE Append(productPrices, WithId(calls[c].price, id)))
           /\ calls' = [calls EXCEPT ![c] =
                           [pc |-> "readBack", op |-> calls[c].op, price |-> calls[c].price,
                            rest |-> calls[c].rest, id |-> id]]
    /\ UNCHANGED <<userSessions, orderData, shippingRates, payoutLog, rtsRtoReconciliation, paymentCycles,
                 lastCall, uploadSessions>>

\* const [result] = await db.select()...where(eq(productPrices.id, id)); return result:
\* the upsert has completed, and the next one of a bulk call starts
ReadBackPrice(c) ==
    /\ calls[c].pc = "readBack"
    /\ \E i \in 1..Len(productPrices) :
           /\ productPrices[i].id = calls[c].id
           /\ lastCall' = [op |-> "upsertProductPrice", price |-> calls[c].price,
                           result |-> productPrices[i]]
    /\ calls' = [calls EXCEPT ![c] =
                    IF calls[c].rest = <<>>
                    THEN [pc |-> "done", op |-> calls[c].op]
                    ELSE [pc |-> "existing", op |-> calls[c].op,
                          price |-> Head(calls[c].rest), rest |-> Tail(calls[c].rest)]]
    /\ UNCHANGED Tables

StartUpsert ==
    \E c \in Clients, price \in PriceInputs : BeginUpsertProductPrices(c, <<price>>)

StartBulkUpsert ==
    \E c \in Clients, first \in PriceInputs, second \in PriceInputs :
        BeginUpsertProductPrices(c, <<first, second>>)

StepUpsert == \E c \in Clients : ReadExisting(c) \/ WritePrice(c) \/ ReadBackPrice(c)

NextUpserts ==
    \/ StartUpsert
    \/ StartBulkUpsert
    \/ StepUpsert

SpecUpserts == Init /\ [][NextUpserts]_vars

\* C17: the price table holds at most one row per (dropshipper, product) key, and once
\* every call has returned that row carries the fields of the upsert that completed last
C17_OneRowPerKey ==
    /\ \A i, j \in 1..Len(productPrices) :
           (/\ productPrices[i].dropshipperEmail = productPrices[j].dropshipperEmail
            /\ productPrices[i].productUid = productPrices[j].productUid) => i = j
    /\ (AllAtRest /\ lastCall.op = "upsertProductPrice")
           => \E i \in 1..Len(productPrices) : WithoutId(productPrices[i]) = lastCall.price

-----------------------------------------------------------------------------
(* getPendingRtsRtoOrders *)

\* WHERE (status = 'RTS' OR status = 'RTO' OR status = 'RTO-Dispatched')
\*   AND rts_date IS NOT NULL [AND dropshipper_email = ?]
IsPendingCandidate(order, dropshipperEmail) ==
    /\ order.status \in {StRTS, StRTO, StRTODispatched}
    /\ order.rtsDate # NullDate
    /\ \/ dropshipperEmail = NullText
       \/ dropshipperEmail = <<>>
       \/ order.dropshipperEmail = dropshipperEmail

\* The columns the query selects, and originalPaymentStatus
PendingRow(order) ==
    [ orderId          |-> order.orderId,
      dropshipperEmail |-> order.dropshipperEmail,
      productUid       |-> order.productUid,
      status           |-> order.status,
      rtsRtoDate       |-> order.rtsDate,
      codAmount        |-> order.productValue,
      originalPaymentStatus |-> "unknown" ]

\* results.filter(r => !reconciledSet.has(r.orderId)).map(...)
PendingOf(results, reconciliations) ==
    LET orderIds == { results[i].orderId : i \in 1..Len(results) }
        reconciledSet == { r.orderId : r \in { x \in SeqToSet(reconciliations) :
                                                  x.orderId \in orderIds } }
        kept == SelectSeq(results, LAMBDA r : r.orderId \notin reconciledSet)
    IN  [i \in 1..Len(kept) |-> PendingRow(kept[i])]

\* What the runtime does with the assignment to `query`, a name the method never declares:
\* module (strict) code throws a ReferenceError, script code creates a global and goes on
AssignsUndeclared == {"throws", "assigns"}

\* What the query builder does with inArray(column, []): older versions throw, later ones
\* build a condition that matches no row
InArrayOfNone == {"throws", "matches none"}

\* getPendingRtsRtoOrders(dropshipperEmail): reads order_data (no ORDER BY) and
\* rts_rto_reconciliation; every error is logged and thrown again
getPendingRtsRtoOrders(dropshipperEmail) ==
    \E assignment \in AssignsUndeclared, empty \in InArrayOfNone,
       orderPerm \in Permutations(1..Len(orderData)) :
        LET results == SelectSeq(InStoreOrder(orderData, orderPerm),
                                 LAMBDA o : IsPendingCandidate(o, dropshipperEmail))
        IN  /\ lastCall' =
                   (IF \/ assignment = "throws"
                       \/ (results = <<>> /\ empty = "throws")
                    THEN [op |-> "getPendingRtsRtoOrders",
                          dropshipperEmail |-> dropshipperEmail, thrown |-> TRUE]
                    ELSE [op |-> "getPendingRtsRtoOrders",
                          dropshipperEmail |-> dropshipperEmail,
                          result |-> PendingOf(results, rtsRtoReconciliation)])
            /\ UNCHANGED <<userSessions, calls, paymentCycles, orderData, productPrices, shippingRates, payoutLog,
                           rtsRtoReconciliation, uploadSessions>>

PendingReturns ==
    \E dropshipperEmail \in {NullText, EmailA} : getPendingRtsRtoOrders(dropshipperEmail)

NextPending ==
    \/ UploadSnapshot
    \/ RecordPayout
    \/ ConfirmReconciliation
    \/ PendingReturns

SpecPending == Init /\ [][NextPending]_vars

\* C18: the call returns a list, with exactly the stored items classified RTS/RTO (of the
\* dropshipper when one is given) whose order has no reconciliation record; the list is
\* empty when there is no such item
C18_PendingAreUnreconciledReturns ==
    lastCall.op = "getPendingRtsRtoOrders" =>
        /\ "result" \in DOMAIN lastCall
        /\ LET expected ==
                   { i \in 1..Len(orderData) :
                         /\ isRtsRto(orderData[i])
                         /\ \/ lastCall.dropshipperEmail = NullText
                            \/ orderData[i].dropshipperEmail = lastCall.dropshipperEmail
                         /\ orderData[i].orderId \notin ReconciledOrderIds }
           IN  /\ \A i \in expected :
                       \E n \in 1..Len(lastCall.result) :
                           /\ lastCall.result[n].orderId = orderData[i].orderId
                           /\ lastCall.result[n].status = orderData[i].status
                           /\ lastCall.result[n].rtsRtoDate = orderData[i].rtsDate
               /\ \A n \in 1..Len(lastCall.result) :
                       lastCall.result[n].orderId \notin ReconciledOrderIds
               /\ Len(lastCall.result) = Cardinality(expected)

-----------------------------------------------------------------------------
(* Payment cycles and generatePaymentReport *)

\* No row: what getPaymentCycle returns for an id that is not stored
NoCycle == [id |-> NullText]

\* cycleParams.<name> || 0
ParamOrZero(cycleParams, name) ==
    IF name \in DOMAIN cycleParams THEN cycleParams[name] ELSE 0

\* upsertPaymentCycle(cycle): the active cycle of the dropshipper is updated in place (the
\* first row the un-ORDERed query returns when several are active), otherwise a row is added
upsertPaymentCycle(cycle) ==
    LET active == { i \in 1..Len(paymentCycles) :
                        /\ paymentCycles[i].dropshipperEmail = cycle.dropshipperEmail
                        /\ paymentCycles[i].isActive }
    IN  /\ IF active # {}
           THEN \E e \in active :
                    /\ paymentCycles' = [paymentCycles EXCEPT
                                            ![e] = WithId(cycle, paymentCycles[e].id)]
                    /\ lastCall' = [op |-> "upsertPaymentCycle",
                                    result |-> WithId(cycle, paymentCycles[e].id)]
           ELSE LET id == Uuid("cycle", Len(paymentCycles) + 1)
                IN  /\ paymentCycles' = Append(paymentCycles, WithId(cycle, id))
                    /\ lastCall' = [op |-> "upsertPaymentCycle", result |-> WithId(cycle, id)]
        /\ UNCHANGED <<userSessions, calls, orderData, productPrices, shippingRates, payoutLog,
                       rtsRtoReconciliation, uploadSessions>>

\* getPaymentCycle(id)
getPaymentCycle(id) ==
    IF \E i \in 1..Len(paymentCycles) : paymentCycles[i].id = id
    THEN paymentCycles[CHOOSE i \in 1..Len(paymentCycles) : paymentCycles[i].id = id]
    ELSE NoCycle

\* date.toISOString().split('T')[0]: the calendar day of an instant
ToISODate(instant) == instant \div SecondsPerDay

\* The calendar of the year the day numbers count from (day 0 is its 1 January); it and
\* the year before it are not leap years
MonthLength == <<31, 28, 31, 30, 31, 30, 31, 31, 30, 31, 30, 31>>

RECURSIVE DaysBeforeMonth(_)
\* The day number of the first day of month m (0 is January); a month below 0 is a month
\* of the year before, as new Date(year, m, d) normalises it
DaysBeforeMonth(m) ==
    IF m < 0 THEN DaysBeforeMonth(m + 12) - 365
    ELSE IF m = 0 THEN 0
    ELSE DaysBeforeMonth(m - 1) + MonthLength[m]

\* date.getMonth() and date.getDate()
getMonth(day) ==
    CHOOSE m \in 0..11 : DaysBeforeMonth(m) <= day /\ day < DaysBeforeMonth(m) + MonthLength[m + 1]
getDate(day) == day - DaysBeforeMonth(getMonth(day)) + 1

\* new Date(year, m, d): a day of month past the month's end runs into the next month
NewDate(m, d) == DaysBeforeMonth(m) + d - 1

\* The switch on cycleInfo.cycleType: the dates of a daily, weekly, biweekly or monthly
\* cycle replace the ones passed; any other type leaves them as passed
CycleDates(cycleInfo, params, now) ==
    LET cycleParams == cycleInfo.cycleParams
    IN  CASE cycleInfo.cycleType = "daily" ->
               LET dateTo == ToISODate(now - ParamOrZero(cycleParams, "daysOffset") * SecondsPerDay)
               IN  [dateFrom |-> ToISODate(DateOf(dateTo) - SecondsPerDay), dateTo |-> dateTo]
          [] cycleInfo.cycleType = "weekly" ->
               LET targetDate == now - ParamOrZero(cycleParams, "weekOffset") * 7 * SecondsPerDay
               IN  [dateFrom |-> ToISODate(targetDate - 7 * SecondsPerDay),
                    dateTo |-> ToISODate(targetDate)]
          [] cycleInfo.cycleType = "biweekly" ->
               LET biweekTargetDate ==
                       now - ParamOrZero(cycleParams, "biweekOffset") * 14 * SecondsPerDay
               IN  [dateFrom |-> ToISODate(biweekTargetDate - 14 * SecondsPerDay),
                    dateTo |-> ToISODate(biweekTargetDate)]
          [] cycleInfo.cycleType = "monthly" ->
               LET today == ToISODate(now)
                   monthTargetDate ==
                       NewDate(getMonth(today) - ParamOrZero(cycleParams, "monthOffset"),
                               getDate(today))
                   monthFrom == NewDate(getMonth(monthTargetDate) - 1, getDate(monthTargetDate))
               IN  [dateFrom |-> monthFrom, dateTo |-> monthTargetDate]
          [] OTHER -> [dateFrom |-> params.dateFrom, dateTo |-> params.dateTo]

\* A default window that starts 7 days before today
DefaultDateFromWeek(now) == ToISODate(now - 7 * SecondsPerDay)

\* new Date(Date.now() - 30 * 24 * 60 * 60 * 1000).toISOString().split('T')[0]
DefaultDateFrom(now) == ToISODate(now - 30 * SecondsPerDay)

\* new Date().toISOString().split('T')[0]
DefaultDateTo(now) == ToISODate(now)

\* payoutRequest: dateFrom || <30 days ago>, dateTo || <today>, for both windows
payoutRequest(params, dates, now) ==
    LET dateFrom == IF dates.dateFrom # NullDate THEN dates.dateFrom ELSE DefaultDateFrom(now)
        dateTo   == IF dates.dateTo # NullDate THEN dates.dateTo ELSE DefaultDateTo(now)
    IN  [ orderDateFrom     |-> dateFrom,
          orderDateTo       |-> dateTo,
          deliveredDateFrom |-> dateFrom,
          deliveredDateTo   |-> dateTo,
          dropshipperEmail  |-> params.dropshipperEmail ]

\* generatePaymentReport(params) called at the instant now
generatePaymentReport(params, now) ==
    LET cycleInfo == IF params.paymentCycleId # NullText
                     THEN getPaymentCycle(params.paymentCycleId) ELSE NoCycle
        dates == IF cycleInfo # NoCycle THEN CycleDates(cycleInfo, params, now)
                 ELSE [dateFrom |-> params.dateFrom, dateTo |-> params.dateTo]
        request == payoutRequest(params, dates, now)
    IN  \E orderPerm \in Permutations(1..Len(orderData)) :
            /\ lastCall' = [op |-> "generatePaymentReport",
                            params |-> params,
                            now |-> now,
                            request |-> request,
                            cycleInfo |-> cycleInfo,
                            result |-> PayoutResult(
                                SelectSeq(InStoreOrder(orderData, orderPerm),
                                          LAMBDA o : InScope(o, request)),
                                getProductPrices, getShippingRates, request)]
            /\ UNCHANGED <<userSessions, calls, paymentCycles, orderData, productPrices, shippingRates,
                           payoutLog, rtsRtoReconciliation, uploadSessions>>

-----------------------------------------------------------------------------
(* The report specification: cycles are configured, line items uploaded, reports generated *)

CycleInput(email, cycleType, cycleParams) ==
    [dropshipperEmail |-> email, cycleType |-> cycleType, cycleParams |-> cycleParams,
     isActive |-> TRUE]

CycleInputs ==
    { CycleInput(EmailA, "daily", [daysOffset |-> 1]),
      CycleInput(EmailA, "weekly", [weekOffset |-> 0]),
      CycleInput(EmailA, "biweekly", [biweekOffset |-> 1]),
      CycleInput(EmailA, "monthly", [monthOffset |-> 1]),
      CycleInput(EmailA, "custom", [days |-> 10]),
      CycleInput(EmailB, "quarterly", [quarterOffset |-> 0]) }

\* Reports are generated on 7 March at noon and on 31 March at 23:00
ReportInstants == { Noon(65), TimeOfDay(89, 23, 0, 0) }

ReportParams ==
    { [dropshipperEmail |-> email, paymentCycleId |-> id, dateFrom |-> from, dateTo |-> to] :
          email \in {EmailA},
          id \in {NullText, Uuid("cycle", 1), Uuid("cycle", 2)},
          from \in {NullDate, 50},
          to \in {NullDate, 60} }

ReportItemInputs ==
    { OrderInput("R1", EmailA, <<"P">>, 1, 10000, ModeCOD, StDelivered,
                 Noon(40), Noon(45), NullDate, Bluedart),
      OrderInput("R2", EmailA, <<"P">>, 1, 20000, ModeCOD, StDelivered,
                 Noon(52), Noon(55), NullDate, Bluedart) }

UploadReportItem ==
    /\ Len(orderData) < MaxLineItems
    /\ \E o \in ReportItemInputs :
           /\ NotYetSubmitted(o, orderData)
           /\ insertOrderData(<<o>>)

ConfigureCycle == \E cycle \in CycleInputs : upsertPaymentCycle(cycle)

GenerateReport ==
    \E params \in ReportParams, now \in ReportInstants : generatePaymentReport(params, now)

NextReport ==
    \/ UploadReportItem
    \/ ConfigureCycle
    \/ GenerateReport

SpecReport == Init /\ [][NextReport]_vars

SupportedCycleTypes == {"daily", "weekly", "biweekly", "monthly"}

\* The last call is a report on a stored cycle whose type is none of the four supported
ReportOnUnsupportedCycle ==
    /\ lastCall.op = "generatePaymentReport"
    /\ lastCall.cycleInfo # NoCycle
    /\ lastCall.cycleInfo.cycleType \notin SupportedCycleTypes

\* The 30 days that end on the day of the call
TrailingThirtyDays(now) == [from |-> ToISODate(now) - 30, to |-> ToISODate(now)]

\* C19 as stated: a report on a cycle of an unsupported type hands calculatePayouts the
\* trailing 30 days ending today, as the order window and as the delivery window
C19_UnsupportedCycleTrailingThirtyDays ==
    ReportOnUnsupportedCycle =>
        LET window == TrailingThirtyDays(lastCall.now)
        IN  /\ lastCall.request.orderDateFrom = window.from
            /\ lastCall.request.orderDateTo = window.to
            /\ lastCall.request.deliveredDateFrom = window.from
            /\ lastCall.request.deliveredDateTo = window.to

\* C19: a report on a cycle of an unsupported type hands calculatePayouts, as the order
\* window and as the delivery window alike, the dateFrom and dateTo it was called with;
\* a bound that was not passed is 30 days before today (dateFrom) or today (dateTo)
C19_UnsupportedCycleKeepsPassedDates ==
    ReportOnUnsupportedCycle =>
        LET window == TrailingThirtyDays(lastCall.now)
            from == IF lastCall.params.dateFrom = NullDate THEN window.from
                    ELSE lastCall.params.dateFrom
            to   == IF lastCall.params.dateTo = NullDate THEN window.to
                    ELSE lastCall.params.dateTo
        IN  /\ lastCall.request.orderDateFrom = from
            /\ lastCall.request.orderDateTo = to
            /\ lastCall.request.deliveredDateFrom = from
            /\ lastCall.request.deliveredDateTo = to

\* A report on the 'custom' cycle without dates, handed 5 February to 7 March, pays the
\* item delivered in it
C19_Witness ==
    /\ ReportOnUnsupportedCycle
    /\ lastCall.cycleInfo.cycleType = "custom"
    /\ lastCall.params.dateFrom = NullDate
    /\ lastCall.params.dateTo = NullDate
    /\ lastCall.request.orderDateFrom = 35
    /\ lastCall.request.deliveredDateTo = 65
    /\ lastCall.result.rows # <<>>

-----------------------------------------------------------------------------
(* getCodBreakdownForRange *)

\* String.prototype.toUpperCase
ToUpperCase(s) ==
    [i \in 1..Len(s) |->
        IF \E u \in DOMAIN UpperToLower : UpperToLower[u] = s[i]
        THEN CHOOSE u \in DOMAIN UpperToLower : UpperToLower[u] = s[i]
        ELSE s[i]]

\* The WHERE clause: lower(status) = 'delivered', delivered_date from deliveredDateFrom to
\* deliveredDateTo + ' 23:59:59' (never true of a NULL date), not a system account, and
\* dropshipper_email = ? when a dropshipper is given
InBreakdownQuery(order, params) ==
    /\ ToLowerCase(order.status) = <<"d","e","l","i","v","e","r","e","d">>
    /\ order.deliveredDate # NullDate
    /\ order.deliveredDate >= DateOf(params.deliveredDateFrom)
    /\ order.deliveredDate <= EndOfDay(params.deliveredDateTo)
    /\ ToLowerCase(order.dropshipperEmail) \notin ExcludedEmails
    /\ \/ params.dropshipperEmail = NullText
       \/ params.dropshipperEmail = <<>>
       \/ order.dropshipperEmail = params.dropshipperEmail

\* The lines orderDetails gets for one order: the payment mode and the product value are
\* those of orderItems[0], for every item of the order
BreakdownOfGroup(orderItems) ==
    LET paymentMode ==
            Trim(ToUpperCase(IF orderItems[1].mode = NullText THEN <<>> ELSE orderItems[1].mode))
        rawProductValue == orderItems[1].productValue
        isCod == paymentMode = <<"C","O","D">> \/ paymentMode = <<>>
    IN  IF isCod
        THEN [i \in 1..Len(orderItems) |->
                 [ orderId       |-> orderItems[i].orderId,
                   deliveredDate |-> ToISODate(orderItems[i].deliveredDate),
                   codAmount     |-> rawProductValue,
                   qty           |-> orderItems[i].qty ]]
        ELSE <<>>

RECURSIVE BreakdownOfGroups(_)
\* for (const [orderId, orderItems] of orderGroups): `grouped` is GroupByOrderId of the rows
BreakdownOfGroups(grouped) ==
    IF grouped = <<>> THEN <<>>
    ELSE LET orderItems == SelectSeq(grouped, LAMBDA o : o.orderId = Head(grouped).orderId)
         IN  BreakdownOfGroup(orderItems)
             \o BreakdownOfGroups(SubSeq(grouped, Len(orderItems) + 1, Len(grouped)))

RECURSIVE InsertByDeliveredDate(_, _)
InsertByDeliveredDate(sorted, x) ==
    IF sorted = <<>> \/ sorted[Len(sorted)].deliveredDate <= x.deliveredDate
    THEN Append(sorted, x)
    ELSE Append(InsertByDeliveredDate(SubSeq(sorted, 1, Len(sorted) - 1), x),
                sorted[Len(sorted)])
RECURSIVE SortByDeliveredDate(_)
\* orderDetails.sort((a, b) => new Date(a.deliveredDate) - new Date(b.deliveredDate))
SortByDeliveredDate(d) ==
    IF d = <<>> THEN <<>>
    ELSE InsertByDeliveredDate(SortByDeliveredDate(SubSeq(d, 1, Len(d) - 1)), d[Len(d)])

\* The value getCodBreakdownForRange returns for the rows the query returned
BreakdownResult(orders) ==
    LET orderDetails == BreakdownOfGroups(GroupByOrderId(orders))
    IN  [ totalCod   |-> SumOf(orderDetails, "codAmount"),
          orderCount |-> Len(orderDetails),
          orders     |-> SortByDeliveredDate(orderDetails) ]

\* getCodBreakdownForRange(params): reads order_data (no ORDER BY) and writes nothing
getCodBreakdownForRange(params) ==
    \E orderPerm \in Permutations(1..Len(orderData)) :
        /\ lastCall' = [op |-> "getCodBreakdownForRange",
                        params |-> params,
                        result |-> BreakdownResult(
                            SelectSeq(InStoreOrder(orderData, orderPerm),
                                      LAMBDA o : InBreakdownQuery(o, params)))]
        /\ UNCHANGED <<userSessions, calls, paymentCycles, orderData, productPrices, shippingRates,
                       payoutLog, rtsRtoReconciliation, uploadSessions>>

-----------------------------------------------------------------------------
(* The COD specification: line items are uploaded, and the COD of a delivery window is
   asked of getCodBreakdownForRange and of calculatePayouts *)

CodItemInputs ==
    { \* order A1: a COD item and a prepaid item, both delivered in the window
      OrderInput("A1", EmailA, <<"P">>, 2, 100060, ModeCOD, StDelivered,
                 Noon(2), Noon(5), NullDate, Bluedart),
      OrderInput("A1", EmailA, <<"P">>, 2, 50000, ModePrepaid, StDelivered,
                 Noon(2), Noon(5), NullDate, Bluedart),
      \* order A2: a COD item delivered in the window, mode ' cod '
      OrderInput("A2", EmailA, <<"P">>, 1, 20050, ModeCodPadded, StDelivered,
                 Noon(2), Noon(4), NullDate, Bluedart),
      \* order A3: a COD item delivered after the window
      OrderInput("A3", EmailA, <<"P">>, 1, 30000, ModeCOD, StDelivered,
                 Noon(2), Noon(8), NullDate, Bluedart),
      \* order A5: a COD item of another dropshipper, delivered in the window
      OrderInput("A5", EmailB, <<"P">>, 1, 40000, NullText, StDelivered,
                 Noon(2), Noon(6), NullDate, Bluedart) }

CodDropshippers == {NullText, EmailA}

UploadCodItem ==
    /\ Len(orderData) < MaxLineItems
    /\ \E o \in CodItemInputs :
           /\ NotYetSubmitted(o, orderData)
           /\ insertOrderData(<<o>>)

CodBreakdown ==
    \E email \in CodDropshippers :
        getCodBreakdownForRange([deliveredDateFrom |-> 4, deliveredDateTo |-> 6,
                                 dropshipperEmail |-> email])

CodOfPayouts ==
    \E email \in CodDropshippers :
        calculatePayouts([orderDateFrom |-> 1, orderDateTo |-> 3, deliveredDateFrom |-> 4,
                          deliveredDateTo |-> 6, dropshipperEmail |-> email])

NextCod ==
    \/ UploadCodItem
    \/ CodBreakdown
    \/ CodOfPayouts

SpecCod == Init /\ [][NextCod]_vars

\* What calculatePayouts returns from the tables as they are, for the delivery window and
\* the dropshipper of the breakdown and the order window of the 1st to the 3rd
PayoutsForBreakdown(params) ==
    LET request == [orderDateFrom |-> 1, orderDateTo |-> 3,
                    deliveredDateFrom |-> params.deliveredDateFrom,
                    deliveredDateTo |-> params.deliveredDateTo,
                    dropshipperEmail |-> params.dropshipperEmail]
    IN  PayoutResult(SelectSeq(orderData, LAMBDA o : InScope(o, request)),
                     getProductPrices, getShippingRates, request)

\* C20: the breakdown's totalCod is the COD total calculatePayouts accumulates (before it
\* rounds to whole units) for the same delivery window and dropshipper, and the breakdown
\* lists as many line items as calculatePayouts counts as COD received
C20_BreakdownAgreesWithPayouts ==
    lastCall.op = "getCodBreakdownForRange" =>
        LET payouts == PayoutsForBreakdown(lastCall.params)
        IN  /\ lastCall.result.totalCod = payouts.totals.codTotal
            /\ lastCall.result.orderCount =
                   Cardinality({ i \in 1..Len(payouts.rows) : payouts.rows[i].codReceived > 0 })

-----------------------------------------------------------------------------
(* insertOrderData, batch by batch *)

\* Rows per batch INSERT (1000 in the source; the model uploads a handful of rows)
batchSize == 1

maxConcurrentBatches == 5

\* The batch that starts at row i + 1: its INSERT is sent when the batch is created
NewBatch(orders, i) ==
    [ from |-> i + 1,
      to |-> IF i + batchSize < Len(orders) THEN i + batchSize ELSE Len(orders),
      state |-> "insert",
      j |-> 0 ]

\* A batch whose promise has settled
Settled(batch) == batch.state = "settled"

\* Promise.all(batchPromises) goes on when just one of the promises has settled
SomeOfGroupSettled(call) ==
    \E b \in call.batchPromises : Settled(call.batches[b])

\* Promise.all(batchPromises): every batch that was pushed has settled
GroupSettled(call) ==
    \A b \in call.batchPromises : Settled(call.batches[b])

RECURSIVE RunLoop(_)
\* The for loop from row call.i on, up to its next await: batches are created and pushed
\* until five are pushed or the rows are exhausted
RunLoop(call) ==
    IF call.i >= Len(call.orders)
    THEN [call EXCEPT !.pc = IF call.batchPromises = {} THEN "return" ELSE "awaitRest"]
    ELSE LET started == [call EXCEPT
                            !.batches = Append(call.batches, NewBatch(call.orders, call.i)),
                            !.batchPromises = call.batchPromises \cup {Len(call.batches) + 1},
                            !.i = call.i + batchSize]
         IN  IF Cardinality(started.batchPromises) >= maxConcurrentBatches
             THEN [started EXCEPT !.pc = "awaitGroup"]
             ELSE RunLoop(started)

\* The record of a finished insertOrderData call
InsertReturn(call) ==
    [ op |-> "insertOrderData", orders |-> call.orders,
      totalInserted |-> call.totalInserted, totalFailed |-> call.totalFailed ]

\* The call and lastCall after the loop has run to its next await or to the return
Proceed(c, call) ==
    IF call.pc = "return"
    THEN /\ calls' = [calls EXCEPT ![c] = [call EXCEPT !.pc = "done"]]
         /\ lastCall' = InsertReturn(call)
    ELSE /\ calls' = [calls EXCEPT ![c] = call]
         /\ UNCHANGED lastCall

\* insertOrderData(orders) is called: no rows, it returns at once; otherwise the loop runs
\* to its first await
BeginInsertOrderData(c, orders) ==
    /\ calls[c].pc = "idle"
    /\ LET call == [ pc |-> "loop", op |-> "insertOrderData", orders |-> orders, i |-> 0,
                     batches |-> <<>>, batchPromises |-> {},
                     totalInserted |-> 0, totalFailed |-> 0 ]
       IN  Proceed(c, IF Len(orders) = 0 THEN [call EXCEPT !.pc = "return"] ELSE RunLoop(call))
    /\ UNCHANGED Tables

\* A batch INSERT that fails after it has stored its first row
BatchInsertKeepsFirstRow(c, b) ==
    /\ calls[c].pc \in {"awaitGroup", "awaitRest"}
    /\ b \in 1..Len(calls[c].batches)
    /\ calls[c].batches[b].state = "insert"
    /\ LET batch == calls[c].batches[b]
           rows == SubSeq(calls[c].orders, batch.from, batch.to)
       IN  \/ /\ orderData' = AppendWithIds(orderData, rows)
              /\ calls' = [calls EXCEPT ![c].batches[b].state = "settled",
                                        ![c].totalInserted = @ + Len(rows)]
           \/ /\ calls' = [calls EXCEPT ![c].batches[b].state = "retry"]
              /\ orderData' = AppendWithIds(orderData, <<rows[1]>>)
    /\ UNCHANGED <<userSessions, productPrices, shippingRates, payoutLog, rtsRtoReconciliation,
                   paymentCycles, lastCall, uploadSessions>>

\* await db.insert(orderData).values(batch) settles: the statement stored every row of the
\* batch, or it failed and stored none and the first row is inserted on its own
BatchInsertSettles(c, b) ==
    /\ calls[c].pc \in {"awaitGroup", "awaitRest"}
    /\ b \in 1..Len(calls[c].batches)
    /\ calls[c].batches[b].state = "insert"
    /\ LET batch == calls[c].batches[b]
           rows == SubSeq(calls[c].orders, batch.from, batch.to)
       IN  \/ /\ orderData' = AppendWithIds(orderData, rows)
              /\ calls' = [calls EXCEPT ![c].batches[b].state = "settled",
                                        ![c].totalInserted = @ + Len(rows)]
           \/ /\ calls' = [calls EXCEPT ![c].batches[b].state = "retry"]
              /\ UNCHANGED orderData
    /\ UNCHANGED <<userSessions, productPrices, shippingRates, payoutLog, rtsRtoReconciliation,
                   paymentCycles, lastCall, uploadSessions>>

\* await db.insert(orderData).values([batch[j]]) settles: stored and counted as inserted,
\* or failed and counted as failed; after the last row the batch's promise is fulfilled
RowInsertSettles(c, b) ==
    /\ calls[c].pc \in {"awaitGroup", "awaitRest"}
    /\ b \in 1..Len(calls[c].batches)
    /\ calls[c].batches[b].state = "retry"
    /\ LET batch == calls[c].batches[b]
           row == calls[c].orders[batch.from + batch.j]
           after == IF batch.from + batch.j = batch.to
                    THEN [batch EXCEPT !.state = "settled"]
                    ELSE [batch EXCEPT !.j = @ + 1]
       IN  \/ /\ orderData' = AppendWithIds(orderData, <<row>>)
              /\ calls' = [calls EXCEPT ![c].batches[b] = after,
                                        ![c].totalInserted = @ + 1]
           \/ /\ calls' = [calls EXCEPT ![c].batches[b] = after,
                                        ![c].totalFailed = @ + 1]
              /\ UNCHANGED orderData
    /\ UNCHANGED <<userSessions, productPrices, shippingRates, payoutLog, rtsRtoReconciliation,
                   paymentCycles, lastCall, uploadSessions>>

\* await Promise.all(batchPromises) inside the loop goes on: the list is emptied and the
\* loop runs on
GroupDone(c) ==
    /\ calls[c].pc = "awaitGroup"
    /\ GroupSettled(calls[c])
    /\ Proceed(c, RunLoop([calls[c] EXCEPT !.batchPromises = {}]))
    /\ UNCHANGED Tables

\* await Promise.all(batchPromises) after the loop goes on: the call returns
RestDone(c) ==
    /\ calls[c].pc = "awaitRest"
    /\ GroupSettled(calls[c])
    /\ Proceed(c, [calls[c] EXCEPT !.pc = "return"])
    /\ UNCHANGED Tables

-----------------------------------------------------------------------------
(* The upload specification: one client stores one upload, batch by batch *)

MaxUpload == 6

UploadIds ==
    <<"U1", "U2", "U3", "U4", "U5", "U6", "U7", "U8",
      "U9", "U10", "U11", "U12", "U13", "U14", "U15", "U16">>

UploadRow(n) ==
    OrderInput(UploadIds[n], EmailA, <<"P">>, 1, 10000, ModeCOD, StDelivered,
               Noon(2), Noon(5), NullDate, Bluedart)

UploadOf(n) == [k \in 1..n |-> UploadRow(k)]

StartUpload == \E n \in 0..MaxUpload : BeginInsertOrderData(1, UploadOf(n))

BatchSettles == \E b \in 1..MaxUpload : BatchInsertSettles(1, b)

RowSettles == \E b \in 1..MaxUpload : RowInsertSettles(1, b)

NextUpload ==
    \/ StartUpload
    \/ BatchSettles
    \/ RowSettles
    \/ GroupDone(1)
    \/ RestDone(1)

SpecUpload == Init /\ [][NextUpload]_vars

\* The batches of the call of client 1 whose promise has not settled
InFlight ==
    IF "batches" \in DOMAIN calls[1]
    THEN { b \in 1..Len(calls[1].batches) : ~Settled(calls[1].batches[b]) }
    ELSE {}

BatchesStarted == IF "batches" \in DOMAIN calls[1] THEN Len(calls[1].batches) ELSE 0

\* C21: at most maxConcurrentBatches batches are in flight; a further batch is started only
\* when every batch started before it has settled; the call has returned only when every
\* batch it started has settled and every row is in a batch
C21_AtMostFiveInFlight ==
    /\ [](Cardinality(InFlight) <= maxConcurrentBatches)
    /\ [][(BatchesStarted > 0 /\ BatchesStarted' > BatchesStarted) => InFlight = {}]_vars
    /\ [](calls[1].pc = "done" =>
              /\ InFlight = {}
              /\ BatchesStarted * batchSize >= Len(calls[1].orders))

\* Five batches are in flight and a sixth row is still waiting for its batch
C21_Witness ==
    /\ Cardinality(InFlight) = maxConcurrentBatches
    /\ calls[1].i < Len(calls[1].orders)

\* The stored rows that hold the k-th row of the upload
StoredCopies(k) ==
    { n \in 1..Len(orderData) : orderData[n].orderId = calls[1].orders[k].orderId }

-----------------------------------------------------------------------------
(* Upload sessions and resetAllData *)

\* createUploadSession(session)
createUploadSession(session) ==
    LET id == Uuid("session", Len(uploadSessions) + 1)
    IN  /\ uploadSessions' = Append(uploadSessions, WithId(session, id))
        /\ lastCall' = [op |-> "createUploadSession", result |-> WithId(session, id)]
        /\ UNCHANGED <<userSessions, calls, orderData, productPrices, shippingRates, payoutLog,
                       rtsRtoReconciliation, paymentCycles>>

\* DELETE FROM payout_log is rejected while a row of rts_rto_reconciliation refers to a
\* payout (foreign key original_payout_id, ON DELETE no action)
PayoutLogReferenced ==
    \E i \in 1..Len(rtsRtoReconciliation) :
        /\ rtsRtoReconciliation[i].originalPayoutId # NullText
        /\ \E k \in 1..Len(payoutLog) :
               payoutLog[k].id = rtsRtoReconciliation[i].originalPayoutId

\* resetAllData() as POST /api/reset-data calls it: four DELETE statements one after the
\* other, outside a transaction; the third fails when a payout is referenced, the method
\* throws there and the route answers 500
resetAllData ==
    /\ orderData' = <<>>
    /\ uploadSessions' = <<>>
    /\ IF PayoutLogReferenced
       THEN /\ UNCHANGED <<payoutLog, rtsRtoReconciliation>>
            /\ lastCall' = [op |-> "resetAllData", thrown |-> TRUE, status |-> 500]
       ELSE /\ payoutLog' = <<>>
            /\ rtsRtoReconciliation' = <<>>
            /\ lastCall' = [op |-> "resetAllData", thrown |-> FALSE, status |-> 200,
                            cleared |-> {"orders", "upload-sessions", "payout-logs",
                                         "rts-rto-reconciliation"}]
    /\ UNCHANGED <<userSessions, calls, productPrices, shippingRates, paymentCycles>>

-----------------------------------------------------------------------------
(* The reset specification: uploads, payouts, confirmations, configuration and resets *)

CreateSession ==
    /\ Len(uploadSessions) < MaxLineItems
    /\ createUploadSession([filename |-> "orders.xlsx"])

NextReset ==
    \/ UploadSnapshot
    \/ CreateSession
    \/ RecordPayout
    \/ ConfirmReconciliation
    \/ ConfigurePrice
    \/ ConfigureRate
    \/ resetAllData

SpecReset == Init /\ [][NextReset]_vars

\* C22: a reset leaves order data, upload sessions, payout log and reconciliation records
\* all empty and product prices and shipping rates as they were, and it answers that the
\* four tables are cleared only when they are
C22_ResetClearsAllFour ==
    [][lastCall'.op = "resetAllData" =>
           /\ orderData' = <<>> /\ uploadSessions' = <<>>
           /\ payoutLog' = <<>> /\ rtsRtoReconciliation' = <<>>
           /\ productPrices' = productPrices /\ shippingRates' = shippingRates
           /\ lastCall'.status = 200]_vars

-----------------------------------------------------------------------------
(* POST /api/upload *)

\* Rows per processing chunk (5000 in the source) and the number of buffered rows from
\* which the buffer is handed to insertOrderData (2000 in the source)
processChunkSize == 1
InsertThreshold == 2
\* if (insertPromises.length >= 5)
MaxInsertPromises == 5

\* A response that is never sent
NoResponse(call, status) == [call EXCEPT !.pc = "done"]

\* return res.status(status).json(...)
RespondDirect(call, status) ==
    [call EXCEPT !.responses = Append(@, status), !.pc = "done"]

\* sendResponse(status, data): sends when nothing was sent; with the headers already sent
\* it writes into the response that is under way
sendResponse(call, status) ==
    IF ~call.responseSent /\ call.responses = <<>>
    THEN [call EXCEPT !.responses = Append(@, status), !.responseSent = TRUE, !.pc = "done"]
    ELSE [call EXCEPT !.responseSent = TRUE, !.pc = "done"]

\* The row of the file as the loop pushes it: the parsed row, or the ERROR row of a row
\* whose processing threw
ParsedRow(file, i) ==
    IF file.rows[i] = "bad"
    THEN OrderInput("ERROR", <<"E","R","R","O","R","_","R","O","W">>, <<"E">>, 0, 0, NullText,
                    <<"E","R","R","O","R">>, Noon(2), NullDate, NullDate, <<"E","R","R","O","R">>)
    ELSE UploadRow(i)

\* storage.insertOrderData(rows) is called and its promise pushed
PushInsert(call) ==
    [call EXCEPT !.promises = Append(@, [rows |-> call.orders, settled |-> FALSE]),
                 !.insertPromises = @ \cup {Len(call.promises) + 1},
                 !.orders = <<>>]

\* After the row loop and the pending insertions: the remaining rows are inserted, or the
\* session is updated at once
AfterPending(call) ==
    IF call.orders # <<>>
    THEN [PushInsert(call) EXCEPT !.pc = "awaitFinal", !.insertPromises = {}]
    ELSE [call EXCEPT !.pc = "updateSession", !.insertPromises = {}]

RECURSIVE RunRowsFrom(_)
\* The loop goes on with the state `state` (evaluated once)
RunRows(state) == CHOOSE after \in { RunRowsFrom(call) : call \in {state} } : TRUE

\* After a push: the loop awaits the insertions when five are pushed
AfterPush(pushed) ==
    IF Cardinality(pushed.insertPromises) >= MaxInsertPromises
    THEN [pushed EXCEPT !.pc = "awaitInserts"]
    ELSE RunRows(pushed)

\* After a chunk: if (orders.length >= 2000) the buffer is handed to insertOrderData
AfterChunk(read) ==
    IF Len(read.orders) >= InsertThreshold THEN AfterPush(PushInsert(read)) ELSE RunRows(read)

\* The rows call.next to chunkEnd are processed and pushed to the buffer
ReadChunk(call, chunkEnd) ==
    [call EXCEPT !.orders = @ \o [k \in 1..(chunkEnd - call.next + 1) |->
                                     ParsedRow(call.file, call.next + k - 1)],
                 !.processedCount = @ + (chunkEnd - call.next + 1),
                 !.next = chunkEnd + 1]

\* The chunk loop from data row call.next on, up to its next await
RunRowsFrom(call) ==
    IF call.next > Len(call.file.rows)
    THEN IF call.insertPromises # {} THEN [call EXCEPT !.pc = "awaitPending"]
         ELSE AfterPending(call)
    ELSE AfterChunk(ReadChunk(call,
             IF call.next + processChunkSize - 1 < Len(call.file.rows)
             THEN call.next + processChunkSize - 1 ELSE Len(call.file.rows)))

\* The handler's step of client c ends with the call record `call`; a finished request is
\* recorded with the responses it was sent
Continue(c, call) ==
    /\ calls' = [calls EXCEPT ![c] = call]
    /\ lastCall' = IF call.pc = "done"
                   THEN [op |-> "POST /api/upload", file |-> call.file,
                         responses |-> call.responses]
                   ELSE lastCall

\* The request reaches the handler: the file is checked and parsed, and the upload session
\* is asked for
ReceiveUpload(c, file) ==
    /\ calls[c].pc = "idle"
    /\ LET call == [ pc |-> "createSession", op |-> "POST /api/upload", file |-> file,
                     responses |-> <<>>, responseSent |-> FALSE, session |-> NullText,
                     next |-> 1, orders |-> <<>>, promises |-> <<>>, insertPromises |-> {},
                     processedCount |-> 0 ]
       IN  Continue(c, CASE file.kind \in {"none", "unsupported"} -> RespondDirect(call, 400)
                         [] file.kind = "corrupt" -> sendResponse(call, 500)
                         [] file.kind = "no columns" -> RespondDirect(call, 400)
                         [] Len(file.rows) < 1 -> RespondDirect(call, 400)
                         [] OTHER -> call)
    /\ UNCHANGED Tables

\* await storage.createUploadSession(...) settles: the session is stored and the rows are
\* processed, or it failed and 500 is answered
SessionSettles(c) ==
    /\ calls[c].pc = "createSession"
    /\ \/ LET id == Uuid("session", Len(uploadSessions) + 1)
          IN  /\ uploadSessions' =
                     Append(uploadSessions,
                            [id |-> id, filename |-> "orders.xlsx", processedRows |-> 0])
              /\ Continue(c, RunRows([calls[c] EXCEPT !.session = id]))
       \/ /\ Continue(c, RespondDirect(calls[c], 500))
          /\ UNCHANGED uploadSessions
    /\ UNCHANGED <<userSessions, orderData, productPrices, shippingRates, payoutLog, rtsRtoReconciliation,
                   paymentCycles>>

\* The promise of an insertOrderData call is fulfilled: its rows are stored, or their
\* inserts failed and were counted
InsertSettles(c, p) ==
    /\ calls[c].pc \in {"awaitInserts", "awaitPending", "awaitFinal"}
    /\ p \in 1..Len(calls[c].promises)
    /\ ~calls[c].promises[p].settled
    /\ \/ orderData' = AppendWithIds(orderData, calls[c].promises[p].rows)
       \/ UNCHANGED orderData
    /\ calls' = [calls EXCEPT ![c].promises[p].settled = TRUE]
    /\ UNCHANGED <<userSessions, productPrices, shippingRates, payoutLog, rtsRtoReconciliation,
                   paymentCycles, uploadSessions, lastCall>>

AllInsertsSettled(call) == \A p \in 1..Len(call.promises) : call.promises[p].settled

\* await Promise.all(insertPromises) inside the loop goes on
InsertsDone(c) ==
    /\ calls[c].pc = "awaitInserts"
    /\ AllInsertsSettled(calls[c])
    /\ Continue(c, RunRows([calls[c] EXCEPT !.insertPromises = {}]))
    /\ UNCHANGED Tables

\* await Promise.all(insertPromises) after the loop goes on
PendingDone(c) ==
    /\ calls[c].pc = "awaitPending"
    /\ AllInsertsSettled(calls[c])
    /\ Continue(c, AfterPending(calls[c]))
    /\ UNCHANGED Tables

\* await storage.insertOrderData(orders) of the remaining rows goes on
FinalDone(c) ==
    /\ calls[c].pc = "awaitFinal"
    /\ AllInsertsSettled(calls[c])
    /\ Continue(c, [calls[c] EXCEPT !.pc = "updateSession"])
    /\ UNCHANGED Tables

\* await storage.updateUploadSession(...) settles, with the counts stored or with an error
\* that is logged; 200 is answered
UpdateSettles(c) ==
    /\ calls[c].pc = "updateSession"
    /\ \/ uploadSessions' =
              [i \in 1..Len(uploadSessions) |->
                  IF uploadSessions[i].id = calls[c].session
                  THEN [uploadSessions[i] EXCEPT !.processedRows = calls[c].processedCount]
                  ELSE uploadSessions[i]]
       \/ UNCHANGED uploadSessions
    /\ Continue(c, sendResponse(calls[c], 200))
    /\ UNCHANGED <<userSessions, orderData, productPrices, shippingRates, payoutLog, rtsRtoReconciliation,
                   paymentCycles>>

-----------------------------------------------------------------------------
(* The route specification: one upload request, from the handler to the response *)

MaxFileRows == 11

UploadFiles ==
    { [kind |-> k, rows |-> <<>>] : k \in {"none", "unsupported", "corrupt", "no columns"} }
    \cup { [kind |-> "sheet", rows |-> [i \in 1..n |-> "row"]] : n \in 0..MaxFileRows }
    \cup { [kind |-> "sheet", rows |-> <<"row", "bad">>] }

Receive == \E file \in UploadFiles : ReceiveUpload(1, file)

InsertSettlesAny == \E p \in 1..(MaxFileRows + 1) : InsertSettles(1, p)

NextRoute ==
    \/ Receive
    \/ SessionSettles(1)
    \/ InsertSettlesAny
    \/ InsertsDone(1)
    \/ PendingDone(1)
    \/ FinalDone(1)
    \/ UpdateSettles(1)

\* Every awaited promise settles and every continuation is run
SpecRoute == Init /\ [][NextRoute]_vars /\ WF_vars(NextRoute)

Responses == IF "responses" \in DOMAIN calls[1] THEN calls[1].responses ELSE <<>>

\* C23: a request that reached the handler is never sent two responses, is sent one of
\* 200, 400 and 500 when the handler is through, and the handler gets through
C23_ExactlyOneResponse ==
    /\ [](Len(Responses) <= 1)
    /\ [](calls[1].pc = "done" => Len(Responses) = 1 /\ Responses[1] \in {200, 400, 500})
    /\ (calls[1].pc # "idle") ~> (calls[1].pc = "done" /\ Len(Responses) = 1)

\* An upload of six rows got 200 although the session update failed and rows were lost
C23_Witness ==
    /\ calls[1].pc = "done"
    /\ Responses = <<200>>
    /\ Len(calls[1].file.rows) = MaxFileRows
    /\ Len(orderData) < MaxFileRows
    /\ uploadSessions[1].processedRows = 0

-----------------------------------------------------------------------------
(* The cumulative specification: the same line items are uploaded again and again, prices
   and rates are configured, payouts calculated *)

RepeatedItemInputs ==
    { OrderInput("A1", EmailA, <<"P">>, 2, 100060, ModeCOD, StDelivered,
                 Noon(2), Noon(5), NullDate, Bluedart),
      OrderInput("A1", EmailA, <<"P">>, 2, 50000, ModePrepaid, StDelivered,
                 Noon(2), Noon(5), NullDate, Bluedart),
      OrderInput("A2", EmailA, <<"P">>, 1, 20050, ModeCodPadded, StDelivered,
                 Noon(9), Noon(5), NullDate, Bluedart) }

UploadAgain ==
    /\ Len(orderData) < MaxLineItems
    /\ \E o \in RepeatedItemInputs : insertOrderData(<<o>>)

NextCumulative ==
    \/ UploadAgain
    \/ ConfigurePrice
    \/ ConfigureRate
    \/ CalculatePayouts

SpecCumulative == Init /\ [][NextCumulative]_vars

\* The items at i and j are the same line stored twice
SameLine(i, j) == i < j /\ WithoutId(ItemsRead[i]) = WithoutId(ItemsRead[j])

\* What the same call returns had it read neither of the items at i and j (i < j)
ResultWithoutPair(i, j) ==
    PayoutResult(RemoveAt(RemoveAt(ItemsRead, j), i), getProductPrices, getShippingRates,
                 lastCall.request)

\* C25: a delivered COD line stored twice, both with the delivered date in the window,
\* adds its value to codTotal twice and its quantity x unit cost to productCostTotal twice
\* and gives two rows, and its order is counted once in ordersWithCodAmount and in
\* ordersWithProductAmount
C25_StoredTwiceCountedTwice ==
    PayoutReturned =>
        \A i, j \in 1..Len(ItemsRead) :
            (/\ SameLine(i, j)
             /\ DeliveredInWindow(ItemsRead[i], lastCall.request)
             /\ CodMode(ItemsRead[i].mode)) =>
                LET o == ItemsRead[i]
                    with == lastCall.result
                    without == ResultWithoutPair(i, j)
                IN  /\ with.totals.codTotal = without.totals.codTotal + 2 * o.productValue
                    /\ with.totals.productCostTotal = without.totals.productCostTotal
                           + 2 * o.qty * ResolvedUnitCost(o, lastCall.request)
                    /\ Len(with.rows) = Len(without.rows) + 2
                    /\ with.summary.ordersWithCodAmount
                           = Cardinality(without.totals.uniqueCodOrders \cup {o.orderId})
                    /\ with.summary.ordersWithProductAmount
                           = Cardinality(without.totals.uniqueProductAmountOrders
                                         \cup {o.orderId})

\* The COD line of order A1 was stored twice and read by a call with its price configured:
\* 2 x 1000.60 received, 2 x 2 x 25.00 of product cost, two rows, one order
C25_Witness ==
    /\ PayoutReturned
    /\ Len(ItemsRead) = 2
    /\ SameLine(1, 2)
    /\ lastCall.result.totals.codTotal = 200120
    /\ lastCall.result.totals.productCostTotal = 10000
    /\ Len(lastCall.result.rows) = 2
    /\ lastCall.result.summary.ordersWithCodAmount = 1
    /\ lastCall.result.summary.ordersWithProductAmount = 1

-----------------------------------------------------------------------------
(* Suggestions per line item *)

\* C26: a run returns at most one suggestion for an order id and product, also when the
\* line item is stored in several RTS/RTO snapshots
C26_OneSuggestionPerLine ==
    DetectReturned =>
        \A m, n \in 1..Len(lastCall.result) :
            (/\ lastCall.result[m].orderId = lastCall.result[n].orderId
             /\ lastCall.result[m].productUid = lastCall.result[n].productUid) => m = n

-----------------------------------------------------------------------------
(* The products specification: an order of two products is returned, each product has its
   own payout-log entry, and detection runs *)

ProductLine(productName, productValue) ==
    OrderInput("A1", EmailA, productName, 1, productValue, ModeCOD, StRTO,
               Noon(2), NullDate, NullDate, Bluedart)

ProductLineInputs == { ProductLine(<<"P">>, 100000), ProductLine(<<"Q">>, 20000) }

ProductPayoutInputs ==
    { [orderId |-> "A1", dropshipperEmail |-> EmailA,
       productUid |-> generateProductUid(<<"P">>, EmailA), paidAmount |-> 60000],
      [orderId |-> "A1", dropshipperEmail |-> EmailA,
       productUid |-> generateProductUid(<<"Q">>, EmailA), paidAmount |-> 15000] }

UploadProductLine ==
    /\ Len(orderData) < MaxOrders
    /\ \E o \in ProductLineInputs : insertOrderData(<<o>>)

RecordProductPayout ==
    \E log \in ProductPayoutInputs :
        /\ NotYetSubmitted(log, payoutLog)
        /\ insertPayoutLog(log)

NextProducts ==
    \/ UploadProductLine
    \/ RecordProductPayout
    \/ AutoDetectAll
    \/ AutoDetect

SpecProducts == Init /\ [][NextProducts]_vars

\* C27: the originalPaidAmount of a suggestion for an order with payout-log entries is the
\* paidAmount of an entry of the suggestion's order, dropshipper and product
C27_PaidAmountOfOwnProduct ==
    DetectReturned =>
        \A n \in 1..Len(lastCall.result) :
            LET s == lastCall.result[n]
            IN  HasPayout(s.orderId) =>
                    \E k \in 1..Len(payoutLog) :
                        /\ payoutLog[k].orderId = s.orderId
                        /\ payoutLog[k].dropshipperEmail = s.dropshipperEmail
                        /\ payoutLog[k].productUid = s.productUid
                        /\ payoutLog[k].paidAmount = s.originalPaidAmount

-----------------------------------------------------------------------------
(* The order counts of a calculatePayouts result *)

\* The distinct order ids among the emitted rows
RowOrderIds(rows) == { rows[n].orderId : n \in 1..Len(rows) }

\* C28: in every calculatePayouts result the orders counted in ordersWithCodAmount are
\* among the orders counted in ordersWithProductAmount, each of the three order counts is
\* at most the number of distinct order ids among the emitted rows, and
\* totalOrdersProcessed is the number of rows
C28_OrderCountsBounded ==
    PayoutReturned =>
        LET res == lastCall.result
            distinct == Cardinality(RowOrderIds(res.rows))
        IN  /\ res.totals.uniqueCodOrders \subseteq res.totals.uniqueProductAmountOrders
            /\ res.summary.ordersWithCodAmount <= res.summary.ordersWithProductAmount
            /\ res.summary.ordersWithCodAmount = Cardinality(res.totals.uniqueCodOrders)
            /\ res.summary.ordersWithProductAmount
                   = Cardinality(res.totals.uniqueProductAmountOrders)
            /\ res.summary.ordersWithShippingCharges <= distinct
            /\ res.summary.ordersWithProductAmount <= distinct
            /\ res.summary.ordersWithCodAmount <= distinct
            /\ res.summary.totalOrdersProcessed = Len(res.rows)

\* A result with a counted COD order whose product has no unit price, and more rows than
\* orders
C28_Witness ==
    /\ PayoutReturned
    /\ lastCall.result.summary.ordersWithCodAmount >= 1
    /\ lastCall.result.summary.ordersWithShippingCharges >= 1
    /\ \E n \in 1..Len(lastCall.result.rows) :
           /\ lastCall.result.rows[n].codReceived > 0
           /\ lastCall.result.rows[n].productCost = 0
    /\ Len(lastCall.result.rows) > Cardinality(RowOrderIds(lastCall.result.rows))

-----------------------------------------------------------------------------
(* The last day of the two windows *)

\* Delivered COD items of distinct orders, ordered and delivered around the last day of
\* the order window (day 3) and of the delivery window (day 6)
LastDayItemInputs ==
    { WindowItem("L1", StDelivered, DateOf(3), TimeOfDay(6, 23, 59, 59)),
      WindowItem("L2", StDelivered, TimeOfDay(3, 0, 0, 1), DateOf(6)),
      WindowItem("L3", StDelivered, Noon(3), Noon(6)),
      WindowItem("L4", StDelivered, TimeOfDay(3, 23, 59, 59), TimeOfDay(7, 0, 0, 0)),
      WindowItem("L5", StInTransit, Noon(3), NullDate),
      WindowItem("L6", StDelivered, Noon(2), Noon(5)) }

UploadLastDayItem ==
    /\ Len(orderData) < MaxLineItems
    /\ \E o \in LastDayItemInputs :
           /\ NotYetSubmitted(o, orderData)
           /\ insertOrderData(<<o>>)

NextLastDay ==
    \/ UploadLastDayItem
    \/ ConfigurePrice
    \/ ConfigureRate
    \/ CalculateWindow

SpecLastDay == Init /\ [][NextLastDay]_vars

\* The stored item a row of the result was made from (the order ids are distinct)
ItemOfRow(row) ==
    orderData[CHOOSE i \in 1..Len(orderData) : orderData[i].orderId = row.orderId]

\* The row of a non-cancelled item against the two windows of the request
LastDayRow(row, o, request, prices, rates) ==
    /\ (~isCancelled(o) /\ o.orderDate > DateOf(request.orderDateTo))
           => row.shippingCost = 0
    /\ (/\ ~isCancelled(o)
        /\ o.orderDate >= DateOf(request.orderDateFrom)
        /\ o.orderDate <= DateOf(request.orderDateTo))
           => row.shippingCost = ShippingCostOf(o, prices, rates)
    /\ (/\ isDelivered(o)
        /\ o.deliveredDate # NullDate
        /\ o.deliveredDate >= DateOf(request.deliveredDateFrom)
        /\ o.deliveredDate <= EndOfDay(request.deliveredDateTo))
           => row.deliveredQty = o.qty
    /\ (isDelivered(o) /\ o.deliveredDate > EndOfDay(request.deliveredDateTo))
           => row.deliveredQty = 0

\* C29: the order window ends at 00:00 of orderDateTo, so a non-cancelled item ordered
\* later on that day is outside it and gets shippingCost 0 while an item ordered at 00:00
\* is charged, whereas an item delivered at any time of the deliveredDateTo day, up to
\* 23:59:59, is inside the delivery window
C29_LastDayOfTheWindows ==
    [][ (lastCall' # lastCall /\ lastCall'.op = "calculatePayouts") =>
            \A n \in 1..Len(lastCall'.result.rows) :
                LastDayRow(lastCall'.result.rows[n], ItemOfRow(lastCall'.result.rows[n]),
                           lastCall'.request,
                           PricesInScope(getProductPrices, lastCall'.request),
                           getShippingRates) ]_vars

\* A result with a charged item ordered at 00:00 of orderDateTo, an uncharged item ordered
\* at noon of that day, and the item delivered at 23:59:59 of deliveredDateTo counted as
\* delivered
C29_Witness ==
    /\ PayoutReturned
    /\ \E m, n \in 1..Len(lastCall.result.rows) :
           /\ lastCall.result.rows[m].orderDate = DateOf(3)
           /\ lastCall.result.rows[m].shippingCost > 0
           /\ lastCall.result.rows[m].deliveredQty = 2
           /\ lastCall.result.rows[n].orderDate = Noon(3)
           /\ lastCall.result.rows[n].shippingCost = 0
           /\ lastCall.result.rows[n].deliveredQty = 2

-----------------------------------------------------------------------------
(* MySQLSessionStore: the table user_sessions; instants in milliseconds *)

\* 24 * 60 * 60 * 1000: the default life of a session without cookie.expires
DefaultMaxAge == 24 * 60 * 60 * 1000

\* session.cookie?.expires ? new Date(session.cookie.expires).getTime() : Date.now() + 24 h
ExpiresOf(session, now) ==
    IF session.cookie.expires # NullDate THEN session.cookie.expires
    ELSE now + DefaultMaxAge

\* JSON.stringify(session): the text of the session, in which a Date is its ISO text
JSONStringify(session) ==
    << "json",
       [ cookie |-> [expires |-> IF session.cookie.expires = NullDate THEN <<"null">>
                                 ELSE <<"iso", session.cookie.expires>>],
         user |-> session.user ] >>

\* JSON.parse(text): the object the text describes; an ISO text stays a text
JSONParse(text) == text[2]

\* The rows of a session id
SessionRows(rows, sessionId) == SelectSeq(rows, LAMBDA r : r.session_id = sessionId)

\* INSERT without the ON DUPLICATE KEY clause on a table without the primary key
InsertRow(rows, row) == Append(rows, row)

\* INSERT INTO user_sessions (session_id, expires, data) VALUES (?, ?, ?)
\* ON DUPLICATE KEY UPDATE expires = ?, data = ?  (session_id is the primary key)
InsertOnDuplicateKeyUpdate(rows, row) ==
    IF \E i \in 1..Len(rows) : rows[i].session_id = row.session_id
    THEN [i \in 1..Len(rows) |->
             IF rows[i].session_id = row.session_id
             THEN [rows[i] EXCEPT !.expires = row.expires, !.data = row.data]
             ELSE rows[i]]
    ELSE Append(rows, row)

\* The call reported through callback(error): the statement failed and changed nothing
SessionCallFails(call) ==
    /\ lastCall' = [call EXCEPT !.err = TRUE]
    /\ UNCHANGED <<Tables, calls>>

\* get(sessionId, callback) at the instant now:
\* SELECT data FROM user_sessions WHERE session_id = ? AND expires > ?
get(sessionId, now) ==
    LET call == [op |-> "get", sessionId |-> sessionId, now |-> now, err |-> FALSE]
        rows == SelectSeq(userSessions,
                          LAMBDA r : r.session_id = sessionId /\ r.expires > now)
    IN  \/ /\ lastCall' = IF rows = <<>> THEN call
                          ELSE [op |-> "get", sessionId |-> sessionId, now |-> now,
                                err |-> FALSE,
                                session |-> IF rows[1].data = NullText THEN <<>>
                                            ELSE JSONParse(rows[1].data)]
           /\ UNCHANGED <<Tables, calls>>
        \/ SessionCallFails(call)

\* set(sessionId, session, callback) at the instant now
set(sessionId, session, now) ==
    LET call == [op |-> "set", sessionId |-> sessionId, session |-> session,
                 now |-> now, err |-> FALSE]
    IN  \/ /\ userSessions' = InsertOnDuplicateKeyUpdate(userSessions,
                                  [session_id |-> sessionId,
                                   expires |-> ExpiresOf(session, now),
                                   data |-> JSONStringify(session)])
           /\ lastCall' = call
           /\ UNCHANGED <<orderData, productPrices, shippingRates, payoutLog,
                          rtsRtoReconciliation, paymentCycles, uploadSessions, calls>>
        \/ SessionCallFails(call)

\* destroy(sessionId, callback): DELETE FROM user_sessions WHERE session_id = ?
destroy(sessionId) ==
    LET call == [op |-> "destroy", sessionId |-> sessionId, err |-> FALSE]
    IN  \/ /\ userSessions' = SelectSeq(userSessions, LAMBDA r : r.session_id # sessionId)
           /\ lastCall' = call
           /\ UNCHANGED <<orderData, productPrices, shippingRates, payoutLog,
                          rtsRtoReconciliation, paymentCycles, uploadSessions, calls>>
        \/ SessionCallFails(call)

\* clear(callback): TRUNCATE TABLE user_sessions
clear ==
    LET call == [op |-> "clear", err |-> FALSE]
    IN  \/ /\ userSessions' = <<>>
           /\ lastCall' = call
           /\ UNCHANGED <<orderData, productPrices, shippingRates, payoutLog,
                          rtsRtoReconciliation, paymentCycles, uploadSessions, calls>>
        \/ SessionCallFails(call)

\* touch(sessionId, session, callback) at the instant now:
\* UPDATE user_sessions SET expires = ? WHERE session_id = ?
touch(sessionId, session, now) ==
    LET call == [op |-> "touch", sessionId |-> sessionId, session |-> session,
                 now |-> now, err |-> FALSE]
    IN  \/ /\ userSessions' =
                  [i \in 1..Len(userSessions) |->
                      IF userSessions[i].session_id = sessionId
                      THEN [userSessions[i] EXCEPT !.expires = ExpiresOf(session, now)]
                      ELSE userSessions[i]]
           /\ lastCall' = call
           /\ UNCHANGED <<orderData, productPrices, shippingRates, payoutLog,
                          rtsRtoReconciliation, paymentCycles, uploadSessions, calls>>
        \/ SessionCallFails(call)

-----------------------------------------------------------------------------
(* The session store specification *)

SessionIds == {"s1", "s2"}

\* Date.now() at the calls: before, at and after the expiry instants the sessions get
SessionInstants == {1000, 5000, 1000 + DefaultMaxAge}

\* Sessions of two users, with and without cookie.expires
SessionInputs ==
    { [cookie |-> [expires |-> expires], user |-> user] :
          expires \in {NullDate, 5000}, user \in {"u1", "u2"} }

GetSession == \E sessionId \in SessionIds, now \in SessionInstants : get(sessionId, now)

SetSession ==
    \E sessionId \in SessionIds, session \in SessionInputs, now \in SessionInstants :
        set(sessionId, session, now)

DestroySession == \E sessionId \in SessionIds : destroy(sessionId)

ClearSessions == clear

TouchSession ==
    \E sessionId \in SessionIds, session \in SessionInputs, now \in SessionInstants :
        touch(sessionId, session, now)

NextSessions ==
    \/ GetSession
    \/ SetSession
    \/ DestroySession
    \/ ClearSessions
    \/ TouchSession

SpecSessions == Init /\ [][NextSessions]_vars

\* The step is a call of `op` that completed without an error
SessionStep(op) == lastCall' # lastCall /\ lastCall'.op = op /\ ~lastCall'.err

\* A get that returns a session returns the data of a row of the session id that has not
\* expired
GetReturnsLiveRow ==
    (SessionStep("get") /\ "session" \in DOMAIN lastCall') =>
        \E i \in 1..Len(userSessions) :
            /\ userSessions[i].session_id = lastCall'.sessionId
            /\ userSessions[i].expires > lastCall'.now
            /\ lastCall'.session = JSONParse(userSessions[i].data)

\* destroy leaves no row of the session id and clear leaves no row at all
DestroyAndClearRemove ==
    /\ SessionStep("destroy") => SessionRows(userSessions', lastCall'.sessionId) = <<>>
    /\ SessionStep("clear") => userSessions' = <<>>

\* A session id without a row gets one by a set of that session id only
OnlySetCreates ==
    \A sessionId \in SessionIds :
        (/\ SessionRows(userSessions, sessionId) = <<>>
         /\ ~(SessionStep("set") /\ lastCall'.sessionId = sessionId))
            => SessionRows(userSessions', sessionId) = <<>>

\* After a set the session id has one row, with the data and the expiry of the call, and
\* the rows of the other session ids are as before
SetReplaces ==
    SessionStep("set") =>
        LET sessionId == lastCall'.sessionId
            after == SessionRows(userSessions', sessionId)
        IN  /\ Len(after) = 1
            /\ after[1].data = JSONStringify(lastCall'.session)
            /\ after[1].expires = ExpiresOf(lastCall'.session, lastCall'.now)
            /\ Len(userSessions') =
                   IF SessionRows(userSessions, sessionId) = <<>>
                   THEN Len(userSessions) + 1 ELSE Len(userSessions)
            /\ SelectSeq(userSessions', LAMBDA r : r.session_id # sessionId)
                   = SelectSeq(userSessions, LAMBDA r : r.session_id # sessionId)

\* A touch keeps the rows, their session ids and their data, and changes the expiry of
\* the rows of its session id only
TouchChangesExpiryOnly ==
    SessionStep("touch") =>
        /\ Len(userSessions') = Len(userSessions)
        /\ \A i \in 1..Len(userSessions) :
               /\ userSessions'[i].session_id = userSessions[i].session_id
               /\ userSessions'[i].data = userSessions[i].data
               /\ userSessions'[i].expires =
                      IF userSessions[i].session_id = lastCall'.sessionId
                      THEN ExpiresOf(lastCall'.session, lastCall'.now)
                      ELSE userSessions[i].expires

\* C30: get(sid) never returns a session whose stored expiry is at or before the current
\* time; after destroy(sid) or clear(), sid has no row, and so get(sid) returns no session,
\* until the next set(sid); set(sid) on an existing sid replaces its data and expiry
\* without a second row; touch(sid) changes the expiry only, never the data, and creates
\* no row for an unknown sid
C30_SessionStore ==
    /\ [][GetReturnsLiveRow]_vars
    /\ [][DestroyAndClearRemove]_vars
    /\ [][OnlySetCreates]_vars
    /\ [][SetReplaces]_vars
    /\ [][TouchChangesExpiryOnly]_vars

\* A get at the very instant a stored session expires returned no session; the expiry of
\* that session was moved by a touch that left its data alone, and the session of the
\* other id is stored beside it
C30_Witness ==
    /\ lastCall.op = "get"
    /\ ~lastCall.err
    /\ "session" \notin DOMAIN lastCall
    /\ Len(userSessions) = 2
    /\ \E i \in 1..2 :
           /\ userSessions[i].session_id = lastCall.sessionId
           /\ userSessions[i].expires = lastCall.now
           /\ userSessions[i].data = JSONStringify([cookie |-> [expires |-> 5000],
                                                    user |-> "u2"])
           /\ userSessions[i].expires = 1000 + DefaultMaxAge

====
